---- MODULE Spec2Model ----
(***************************************************************************)
(* Release queue of the MPP dashboard pipeline: the discovery stage        *)
(* (agents/rss_agent.py), the download stage (agents/download_agent.py)    *)
(* and the readers of data/rss_queue.csv (scrape_agent.py,                 *)
(* earnings_agent.py).                                                     *)
(*                                                                         *)
(* A Python str is a sequence of one-character strings (a "text"); None    *)
(* and "" are both the empty sequence, which is how the code treats them   *)
(* (truthiness tests, and csv writes None as the empty field).             *)
(***************************************************************************)
EXTENDS Integers, Sequences, FiniteSets, TLC

VARIABLES
    csv_exists,     \* data/rss_queue.csv exists
    csv_rows,       \* its data rows, in file order (each row: the 8 columns)
    raw_files,      \* names of the files in data/raw
    releases,       \* names of the files under releases/
    rss_pc,         \* rss_agent.main: "idle", "loop", "writing"
    existing,       \* rss_agent.main: rows loaded at the start of the run
    seen_ids,       \* rss_agent.main: the dedup index
    new_rows,       \* rss_agent.main: records accepted in this run
    rss_i,          \* rss_agent.main: position in the active config rows
    all_rows,       \* write_queue / download write-back: rows being written
    dl_pc,          \* download_agent.main: "idle", "loop", "writing"
    rows,           \* download_agent.main: the table in memory
    dirty,          \* download_agent.main: dirty flag
    dl_i,           \* download_agent.main: position in rows
    exited,         \* the stage that ended last and its exit status
    observed,       \* history: identities the running discovery run has met
    fetched,        \* history, kept by the specification of discovery alone:
                    \* per source of the running discovery run, what its
                    \* fetch gave: "nothing", "unidentified" or "entries"
    prev_observed,  \* history: identities the last completed discovery run met
    attempts,       \* history: fetch attempts per row of the download run
    last_saved,     \* history: the table as of the last completed save
    kills,          \* history: how many runs were killed
    all_pc,         \* main.py `run all`: "idle", "for", "wait", "done", "raised"
    all_i,          \* main.py `run all`: position in the tuple of stages
    started,        \* history: the stages `run all` has started, in order
    arg,            \* the row handed to a resolver called on its own
    res             \* what that call gave

vars == <<csv_exists, csv_rows, raw_files, releases, rss_pc, existing, seen_ids, new_rows,
          rss_i, all_rows, dl_pc, rows, dirty, dl_i, exited, observed, fetched,
          prev_observed, attempts, last_saved, kills, all_pc, all_i, started,
          arg, res>>

\* The local state of each stage, for UNCHANGED.
rss_vars == <<rss_pc, existing, seen_ids, new_rows, rss_i, observed, fetched>>
dl_vars  == <<dl_pc, rows, dirty, dl_i, attempts>>
all_vars == <<all_pc, all_i, started>>
call_vars == <<arg, res>>

(***************************************************************************)
(* Bounds of the model.                                                    *)
(***************************************************************************)
\* The environment offers discovery no more records than fit this many rows.
MaxRows == 3
\* The specification that kills runs follows the system up to this many kills.
MaxKills == 1
\* The specification of concurrent runs starts runs on tables of up to this
\* many rows.
MaxSharedRows == 1

(***************************************************************************)
(* Texts.                                                                  *)
(***************************************************************************)
\* The characters used, in code-point order (Python compares str by code point).
Alphabet ==
    <<" ","-",".","/","0","1","2","3","4","5","6","7","8","9",":","?">>
    \o <<"A","B","C","D","E","F","G","H","I","J","K","L","M","N","O","P","Q","R",
         "S","T","U","V","W","X","Y","Z">>
    \o <<"_">>
    \o <<"a","b","c","d","e","f","g","h","i","j","k","l","m","n","o","p","q","r",
         "s","t","u","v","w","x","y","z">>

Ord(c) == CHOOSE i \in 1..Len(Alphabet) : Alphabet[i] = c

\* The classes [A-Z], [a-z] and [0-9]
IsUpper(c) == c \in {"A","B","C","D","E","F","G","H","I","J","K","L","M","N","O","P",
                     "Q","R","S","T","U","V","W","X","Y","Z"}
IsLower(c) == c \in {"a","b","c","d","e","f","g","h","i","j","k","l","m","n","o","p",
                     "q","r","s","t","u","v","w","x","y","z"}
IsDigit(c) == c \in {"0","1","2","3","4","5","6","7","8","9"}

\* str.lower() and str.upper()
lower(s) == [i \in 1..Len(s) |->
               IF IsUpper(s[i]) THEN Alphabet[Ord(s[i]) + (Ord("a") - Ord("A"))]
               ELSE s[i]]
upper(s) == [i \in 1..Len(s) |->
               IF IsLower(s[i]) THEN Alphabet[Ord(s[i]) - (Ord("a") - Ord("A"))]
               ELSE s[i]]

\* s.startswith(p)
startswith(s, p) == Len(s) >= Len(p) /\ SubSeq(s, 1, Len(p)) = p

\* needle in hay
contains(hay, needle) ==
    \E i \in 0..(Len(hay) - Len(needle)) : SubSeq(hay, i + 1, i + Len(needle)) = needle

\* s.split(c) for a one-character separator c: the list of parts
RECURSIVE split(_, _)
split(s, c) ==
    IF \A i \in 1..Len(s) : s[i] # c THEN <<s>>
    ELSE LET k == CHOOSE i \in 1..Len(s) : s[i] = c /\ \A j \in 1..(i - 1) : s[j] # c
         IN  <<SubSeq(s, 1, k - 1)>> \o split(SubSeq(s, k + 1, Len(s)), c)

\* a < b on str (code-point lexicographic order)
RECURSIVE str_lt(_, _)
str_lt(a, b) ==
    IF b = <<>> THEN FALSE
    ELSE IF a = <<>> THEN TRUE
    ELSE IF a[1] # b[1] THEN Ord(a[1]) < Ord(b[1])
    ELSE str_lt(Tail(a), Tail(b))

\* int(s) for a run of decimal digits
RECURSIVE int(_)
int(s) == IF s = <<>> THEN 0
          ELSE 10 * int(SubSeq(s, 1, Len(s) - 1)) + (Ord(s[Len(s)]) - Ord("0"))

\* f"{n:02d}" and f"{n:04d}"
Digit(n) == Alphabet[Ord("0") + n]
fmt02(n) == <<Digit(n \div 10), Digit(n % 10)>>
fmt04(n) == <<Digit((n \div 1000) % 10), Digit((n \div 100) % 10),
              Digit((n \div 10) % 10), Digit(n % 10)>>

\* The string literals of the agents, as texts
T ==
    [ true |-> <<"T","r","u","e">>,
      false |-> <<"F","a","l","s","e">>,
      BLS |-> <<"B","L","S">>,
      CPI |-> <<"C","P","I">>,
      Nasdaq |-> <<"N","a","s","d","a","q">>,
      EARN_PRE |-> <<"E","A","R","N","_","P","R","E">>,
      EARN_AH |-> <<"E","A","R","N","_","A","H">>,
      StatsCan |-> <<"S","t","a","t","s","C","a","n">>,
      NHPI_CA |-> <<"N","H","P","I","_","C","A">>,
      PPI_CA |-> <<"P","P","I","_","C","A">>,
      Fed |-> <<"F","e","d">>,
      G17 |-> <<"G","1","7">>,
      crawler |-> <<"c","r","a","w","l","e","r",":">>,
      pre_market |-> <<"p","r","e","-","m","a","r","k","e","t"," ","e","a","r","n","i",
            "n","g","s"," ","r","e","p","o","r","t">>,
      after_hours |-> <<"a","f","t","e","r","-","h","o","u","r","s"," ","e","a","r","n",
            "i","n","g","s"," ","r","e","p","o","r","t">>,
      housing |-> <<"n","e","w"," ","h","o","u","s","i","n","g"," ","p","r","i","c",
            "e"," ","i","n","d","e","x">>,
      industrial |-> <<"i","n","d","u","s","t","r","i","a","l"," ","p","r","o","d","u",
            "c","t">>,
      pdf |-> <<".","p","d","f">>,
      html |-> <<".","h","t","m","l">>,
      http404 |-> <<"4","0","4">>,
      timeout |-> <<"t","i","m","e","o","u","t">>,
      invalid |-> <<"I","n","v","a","l","i","d"," ","U","R","L">>,
      UNKNOWN |-> <<"U","N","K","N","O","W","N">>,
      http |-> <<"h","t","t","p">>,
      EARN_ |-> <<"E","A","R","N","_">>,
      txt |-> <<".","t","x","t">>,
      tickers |-> <<".","t","i","c","k","e","r","s">>,
      Nasdaq_ |-> <<"N","a","s","d","a","q","_">> ]

(***************************************************************************)
(* The queue table and its rows.                                           *)
(***************************************************************************)
cols == <<"release_id", "source", "dataset", "parser", "url", "published",
          "status", "error">>

QUEUED     == "QUEUED"
DOWNLOADED == "DOWNLOADED"
FAILED_DL  == "FAILED_DL"

\* A record that starts without a status
new_row_blank(rel_id, row, url, published) ==
    [release_id |-> rel_id, source |-> row.source, dataset |-> row.dataset,
     parser |-> row.parser, url |-> url, published |-> published,
     status |-> "", error |-> <<>>]

\* dict(release_id=..., source=..., ..., status="QUEUED", error="")
new_row(rel_id, row, url, published) ==
    [release_id |-> rel_id, source |-> row.source, dataset |-> row.dataset,
     parser |-> row.parser, url |-> url, published |-> published,
     status |-> QUEUED, error |-> <<>>]

\* {r["release_id"] for r in rs}
ids(rs) == {rs[i].release_id : i \in 1..Len(rs)}

\* load_existing_queue(): [] when the file is absent, else its rows
load_existing_queue == IF csv_exists THEN csv_rows ELSE <<>>

\* A key that reads every `published` as year, month, day
sort_key_iso_only(r) ==
    LET parts == split(r.published, "-")
    IN  IF Len(parts) # 3 THEN <<>> ELSE parts[1] \o parts[2] \o parts[3]

\* sort_key(r): "" unless `published` splits on "-" into exactly three parts
sort_key(r) ==
    LET pub == r.published IN
    IF contains(pub, <<"-">>) THEN
        LET parts == split(pub, "-") IN
        IF Len(parts) # 3 THEN <<>>                          \* unpacking raises
        ELSE IF Len(parts[1]) = 4 THEN parts[1] \o parts[2] \o parts[3]
        ELSE parts[3] \o parts[2] \o parts[1]
    ELSE <<>>

\* list.sort(key=sort_key, reverse=True): descending and stable, so rows with
\* equal keys keep the order they had in the list.
RECURSIVE sort_reverse(_)
sort_reverse(rs) ==
    IF rs = <<>> THEN <<>>
    ELSE LET done == sort_reverse(SubSeq(rs, 1, Len(rs) - 1))
             x    == rs[Len(rs)]
             n    == Cardinality({i \in 1..Len(done) :
                                    ~ str_lt(sort_key(done[i]), sort_key(x))})
         IN  SubSeq(done, 1, n) \o <<x>> \o SubSeq(done, n + 1, Len(done))

\* A writer that leaves out the sort of write_queue
write_queue_unsorted(rs) == rs

\* write_queue(all_rows), the rows as they are handed to csv.DictWriter
write_queue(rs) == sort_reverse(rs)

(***************************************************************************)
(* Configuration (config/feeds_config.xlsx) and the fetched documents.     *)
(***************************************************************************)

CONFIG ==
    << [source |-> T.BLS, dataset |-> T.CPI, url |-> <<"f","1">>,
        parser |-> <<"c","p","i">>, active |-> T.true],
       [source |-> T.BLS, dataset |-> T.CPI, url |-> <<"f","2">>,
        parser |-> <<"c","p","i">>, active |-> T.true],
       [source |-> T.Fed, dataset |-> T.G17, url |-> <<"h","/">>,
        parser |-> T.crawler \o <<"g">>, active |-> T.true],
       [source |-> T.Nasdaq, dataset |-> T.EARN_PRE, url |-> <<"f","3">>,
        parser |-> <<"n","q">>, active |-> T.true],
       [source |-> T.StatsCan, dataset |-> T.PPI_CA, url |-> <<"f","5">>,
        parser |-> <<"s","c">>, active |-> T.false] >>

\* cfg[cfg["active"].astype(str).str.upper()=="TRUE"]
IsActive(row) == upper(row.active) = upper(T.true)
active == SelectSeq(CONFIG, IsActive)

\* A feed entry as feedparser gives it; <<>> where the key is missing.
Entry(id, link, links, title, pp, up, pub, upd) ==
    [id |-> id, link |-> link, links |-> links, title |-> title,
     published_parsed |-> pp, updated_parsed |-> up,
     published |-> pub, updated |-> upd]

E ==
    [ a |-> Entry(<<"g","1">>, <<>>, <<>>, T.CPI, <<2025, 6, 19>>, <<>>,
             <<>>, <<>>),
      b |-> Entry(<<>>, <<"h","/","2">>, <<>>, T.CPI, <<>>, <<>>,
             <<"2","0","-","0","6","-","2","0","2","5">>, <<>>),
      c |-> Entry(<<>>, <<>>, <<>>, T.CPI, <<>>, <<>>, <<>>, <<>>),
      d |-> Entry(<<>>, <<>>, << <<"h","/","3">> >>, T.CPI, <<>>, <<>>, <<>>,
             <<"2","0","2","5","/","0","6","/","2","1">>),
      e |-> Entry(<<"g","3">>, <<"h","/","4">>, <<>>,
             <<"P","r","e","-","M","a","r","k","e","t"," ","E","a","r","n","i",
             "n","g","s"," ","R","e","p","o","r","t">>,
             <<>>, <<>>, <<"J","u","n","e">>, <<>>),
      f |-> Entry(<<"g","4">>, <<"h","/","4">>, <<>>, <<"W","r","a","p">>,
             <<>>, <<2025, 6, 20>>, <<>>, <<>>) ]

\* What feedparser.parse(url) can return for each feed: its entries, in
\* document order.  No entries at all is also what a failed fetch gives.
FeedChoices(url) ==
    IF url = <<"f","1">> THEN
        {<<>>, <<E.c, E.a, E.a>>, <<E.b>>, <<E.b, E.a>>, <<E.a, E.b>>}
    ELSE IF url = <<"f","2">> THEN
        {<<>>, <<E.a>>, <<E.d, E.a>>}
    ELSE {<<>>, <<E.f>>, <<E.f, E.e>>}

\* What the crawler finds on the index page: whether the fetch succeeded, the
\* groups of the "Last updated:" match (<<>> without one), the resolved URL of
\* the matched anchor (<<>> without one) and the groups of the pattern in it.
Page(ok, mdate, rel_url, groups) ==
    [ok |-> ok, mdate |-> mdate, rel_url |-> rel_url, groups |-> groups]

PageChoices ==
    { Page(FALSE, <<>>, <<>>, <<>>),
      Page(TRUE, <<>>, <<>>, <<>>),
      Page(TRUE, << <<"J","u","n","e">>, <<"1","9">>, <<"2","0","2","5">> >>,
           <<"h","/","5">>, << <<"2","0","2","5">>, <<"0","7">> >>),
      Page(TRUE, << <<"J","u","n">>, <<"1","9">>, <<"2","0","2","5">> >>,
           <<"h","/","5">>, << <<"2","0","2","5">>, <<"0","7">> >>) }

(***************************************************************************)
(* Discovery: rss_agent.main                                               *)
(***************************************************************************)

\* The full month names strptime(..., "%B") accepts (it ignores case).
MonthNames ==
    << <<"j","a","n","u","a","r","y">>, <<"f","e","b","r","u","a","r","y">>,
       <<"m","a","r","c","h">>, <<"a","p","r","i","l">>, <<"m","a","y">>,
       <<"j","u","n","e">>, <<"j","u","l","y">>, <<"a","u","g","u","s","t">>,
       <<"s","e","p","t","e","m","b","e","r">>, <<"o","c","t","o","b","e","r">>,
       <<"n","o","v","e","m","b","e","r">>, <<"d","e","c","e","m","b","e","r">> >>

\* dt.datetime.strptime(mon_str, "%B").month; 0 stands for ValueError
month_B(mon_str) ==
    IF \E k \in 1..Len(MonthNames) : MonthNames[k] = lower(mon_str)
    THEN CHOOSE k \in 1..Len(MonthNames) : MonthNames[k] = lower(mon_str)
    ELSE 0

\* f"{row['source']}_{row['dataset']}_{unique}"
release_id_of(row, unique) == row.source \o <<"_">> \o row.dataset \o <<"_">> \o unique

\* The loop state of main: new_rows, seen_ids (and the identities met).
Acc(nr, seen, obs) == [new_rows |-> nr, seen_ids |-> seen, observed |-> obs]

\* A dedup step that does not consult seen_ids
queue_if_new_always(row, rel_id, url, published, acc) ==
    Acc(Append(acc.new_rows, new_row(rel_id, row, url, published)),
        acc.seen_ids \cup {rel_id}, acc.observed \cup {rel_id})

\* A dedup step that consults seen_ids but never adds to it
queue_if_new_no_add(row, rel_id, url, published, acc) ==
    IF rel_id \in acc.seen_ids
    THEN Acc(acc.new_rows, acc.seen_ids, acc.observed \cup {rel_id})
    ELSE Acc(Append(acc.new_rows, new_row(rel_id, row, url, published)),
             acc.seen_ids, acc.observed \cup {rel_id})

\* rel_id in seen_ids -> continue; else append the record and extend the index
queue_if_new(row, rel_id, url, published, acc) ==
    IF rel_id \in acc.seen_ids
    THEN Acc(acc.new_rows, acc.seen_ids, acc.observed \cup {rel_id})
    ELSE Acc(Append(acc.new_rows, new_row(rel_id, row, url, published)),
             acc.seen_ids \cup {rel_id}, acc.observed \cup {rel_id})

\* The title filters of the feed loop: TRUE when the entry is passed over.
title_skip(row, ent) ==
    LET title_lower == lower(ent.title)
        ds          == row.dataset
    IN  \/ ds = T.EARN_PRE /\ ~ contains(title_lower, T.pre_market)
        \/ ds = T.EARN_AH /\ ~ contains(title_lower, T.after_hours)
        \/ /\ row.source = T.StatsCan
           /\ \/ ds = T.NHPI_CA /\ ~ contains(title_lower, T.housing)
              \/ ds = T.PPI_CA /\ ~ contains(title_lower, T.industrial)

\* `published` of a feed entry: the structured timestamp as %Y-%m-%d, else
\* the raw published / updated text
entry_published(ent) ==
    IF ent.published_parsed # <<>> \/ ent.updated_parsed # <<>> THEN
        LET ts == IF ent.published_parsed # <<>> THEN ent.published_parsed
                  ELSE ent.updated_parsed
        IN  fmt04(ts[1]) \o <<"-">> \o fmt02(ts[2]) \o <<"-">> \o fmt02(ts[3])
    ELSE IF ent.published # <<>> THEN ent.published
    ELSE ent.updated

\* A pass that queues the entry whether or not it has an identity
feed_entry_any(row, ent, acc) ==
    IF title_skip(row, ent) THEN acc
    ELSE LET link   == IF ent.link = <<>> /\ ent.links # <<>> THEN ent.links[1]
                       ELSE ent.link
             unique == IF ent.id # <<>> THEN ent.id ELSE link
         IN  queue_if_new(row, release_id_of(row, unique), link,
                          entry_published(ent), acc)

\* One pass of `for ent in fp.entries`
feed_entry(row, ent, acc) ==
    IF title_skip(row, ent) THEN acc
    ELSE LET guid   == ent.id
             link   == IF ent.link = <<>> /\ ent.links # <<>> THEN ent.links[1]
                       ELSE ent.link
             unique == IF guid # <<>> THEN guid ELSE link
         IN  IF unique = <<>> THEN acc
             ELSE queue_if_new(row, release_id_of(row, unique), link,
                               entry_published(ent), acc)

RECURSIVE feed_entries(_, _, _)
feed_entries(row, ents, acc) ==
    IF ents = <<>> THEN acc
    ELSE feed_entries(row, Tail(ents), feed_entry(row, Head(ents), acc))

\* The try block of the crawler branch when the fetch succeeds
crawler_found(row, page, acc) ==
    LET mon_num   == IF page.mdate = <<>> THEN 0 ELSE month_B(page.mdate[1])
        last_upd  == IF mon_num = 0 THEN <<>>
                     ELSE page.mdate[3] \o <<"-">> \o fmt02(mon_num) \o <<"-">>
                          \o fmt02(int(page.mdate[2]))
        published == IF last_upd = <<>> /\ Len(page.groups) >= 2
                     THEN page.groups[1] \o <<"-">> \o page.groups[2] \o <<"-","0","1">>
                     ELSE last_upd
    IN  IF page.rel_url = <<>> THEN acc                 \* no href matched
        ELSE queue_if_new(row, release_id_of(row, page.rel_url), page.rel_url,
                          published, acc)

\* A crawler branch whose failure discards what the run has found so far
crawler_row_reset(row, page, acc) ==
    IF ~ page.ok THEN Acc(<<>>, acc.seen_ids, acc.observed)
    ELSE crawler_found(row, page, acc)

\* The crawler branch for one config row: try ... except Exception: log
crawler_row(row, page, acc) ==
    IF ~ page.ok THEN acc ELSE crawler_found(row, page, acc)

\* existing = load_existing_queue(); seen_ids = {...}; new_rows = []
rss_load ==
    /\ rss_pc = "idle"
    /\ existing' = load_existing_queue
    /\ seen_ids' = ids(load_existing_queue)
    /\ new_rows' = <<>>
    /\ observed' = {}
    /\ fetched' = <<>>
    /\ rss_i' = 1
    /\ rss_pc' = "loop"
    /\ UNCHANGED <<csv_exists, csv_rows, raw_files, releases, all_rows, dl_vars, exited,
                   prev_observed, last_saved, kills, all_vars, call_vars>>

\* What the fetch of a config row can return: a page for a crawler row, the
\* entries of the feed for the others
source_docs(row) ==
    IF startswith(row.parser, T.crawler) THEN PageChoices ELSE FeedChoices(row.url)

\* The body of `for _, row in active.iterrows()` on the document fetched
source_step(row, doc, acc) ==
    IF startswith(row.parser, T.crawler) THEN crawler_row(row, doc, acc)
    ELSE feed_entries(row, doc, acc)

\* An entry that passes the title filters and has neither an id nor a link
unidentified(row, ent) ==
    /\ ~ title_skip(row, ent)
    /\ ent.id = <<>>
    /\ ent.link = <<>>
    /\ ent.links = <<>>

\* What the fetch gave, as the log tells it: "nothing" for a crawler fetch that
\* raised and for a feed without entries (a failed fetch or parse gives none),
\* "unidentified" for entries of which one has no identity, else "entries"
fetch_kind(row, doc) ==
    IF startswith(row.parser, T.crawler)
    THEN (IF doc.ok THEN "entries" ELSE "nothing")
    ELSE IF doc = <<>> THEN "nothing"
    ELSE IF \E k \in 1..Len(doc) : unidentified(row, doc[k]) THEN "unidentified"
    ELSE "entries"

\* One pass of `for _, row in active.iterrows()`, on what the fetch returns;
\* `trace` tells whether the history `fetched` is kept
rss_pass(trace) ==
    /\ rss_pc = "loop"
    /\ rss_i <= Len(active)
    /\ \E doc \in source_docs(active[rss_i]) :
          LET out == source_step(active[rss_i], doc, Acc(new_rows, seen_ids, observed))
          IN  /\ Len(existing) + Len(out.new_rows) <= MaxRows
              /\ new_rows' = out.new_rows
              /\ seen_ids' = out.seen_ids
              /\ observed' = out.observed
              /\ fetched' = IF trace THEN Append(fetched, fetch_kind(active[rss_i], doc))
                            ELSE fetched
    /\ rss_i' = rss_i + 1
    /\ UNCHANGED <<csv_exists, csv_rows, raw_files, releases, rss_pc, existing,
                   all_rows,
                   dl_vars, exited, prev_observed, last_saved, kills, all_vars, call_vars>>

rss_source == rss_pass(FALSE)
rss_source_traced == rss_pass(TRUE)

\* A save that keeps only what this run found
rss_to_write_new_only ==
    IF new_rows # <<>> THEN write_queue(new_rows)
    ELSE write_queue(existing)

\* A save that reads the table again and adds to it what this run found
rss_to_write_reread ==
    write_queue(load_existing_queue
                \o SelectSeq(new_rows,
                             LAMBDA r : r.release_id \notin ids(load_existing_queue)))

\* The rows main hands to write_queue, sorted as write_queue sorts them
rss_to_write ==
    IF new_rows # <<>> THEN write_queue(existing \o new_rows)
    ELSE write_queue(existing)

rss_done ==
    /\ rss_pc' = "idle"
    /\ existing' = <<>>
    /\ seen_ids' = {}
    /\ new_rows' = <<>>
    /\ observed' = {}
    /\ fetched' = <<>>
    /\ rss_i' = 0
    /\ all_rows' = <<>>
    /\ prev_observed' = observed
    /\ exited' = <<"rss", 0>>

\* write_queue(...) run to its end in one step, then main returns
rss_finish ==
    /\ rss_pc = "loop"
    /\ rss_i > Len(active)
    /\ csv_exists' = TRUE
    /\ csv_rows' = rss_to_write
    /\ last_saved' = [exists |-> TRUE, rows |-> rss_to_write]
    /\ rss_done
    /\ UNCHANGED <<raw_files, releases, dl_vars, kills, all_vars, call_vars>>

(***************************************************************************)
(* Download: download_agent.main                                           *)
(***************************************************************************)

\* A sanitiser whose character class has no dot
safe_filename_no_dot(text) ==
    [i \in 1..Len(text) |->
        IF \/ IsUpper(text[i]) \/ IsLower(text[i]) \/ IsDigit(text[i])
           \/ text[i] \in {"_", "-"}
        THEN text[i] ELSE "_"]

\* re.sub(r'[^A-Za-z0-9._-]', '_', text)
safe_filename(text) ==
    [i \in 1..Len(text) |->
        IF \/ IsUpper(text[i]) \/ IsLower(text[i]) \/ IsDigit(text[i])
           \/ text[i] \in {".", "_", "-"}
        THEN text[i] ELSE "_"]

\* ".pdf" if url.lower().endswith(".pdf") else ".html"
file_extension(url) ==
    IF Len(url) >= Len(T.pdf)
       /\ SubSeq(lower(url), Len(url) - Len(T.pdf) + 1, Len(url)) = T.pdf
    THEN T.pdf ELSE T.html

\* What requests.get(url) and the write of the raw file can end in.  An empty
\* URL always raises (no scheme); the other hosts answer, and then either
\* well, with a status >= 400, or not in time.
FetchOutcomes(url) ==
    IF url = <<>> THEN {"exception"}
    ELSE IF url \in {<<"h","/","1">>, <<"h","/","3">>} THEN {"ok", "http_error"}
    ELSE {"ok", "timeout"}

\* str(e) of the exception each failure raises
error_text(outcome) ==
    IF outcome = "http_error" THEN T.http404
    ELSE IF outcome = "timeout" THEN T.timeout
    ELSE T.invalid

\* A loop body that also stores the address the request was redirected to
fetched_row_redirect(row, outcome) ==
    IF outcome = "ok"
    THEN [row EXCEPT !.status = DOWNLOADED, !.error = <<>>,
                     !.url = row.url \o <<"/">>]
    ELSE [row EXCEPT !.status = FAILED_DL, !.error = error_text(outcome)]

\* A loop body that leaves the row as it was when the request times out
fetched_row_keep_on_timeout(row, outcome) ==
    IF outcome = "ok"
    THEN [row EXCEPT !.status = DOWNLOADED, !.error = <<>>]
    ELSE IF outcome = "timeout" THEN row
    ELSE [row EXCEPT !.status = FAILED_DL, !.error = error_text(outcome)]

\* The body of `for row in rows` for a QUEUED row: its status and error after
\* the try/except
fetched_row(row, outcome) ==
    IF outcome = "ok"
    THEN [row EXCEPT !.status = DOWNLOADED, !.error = <<>>]
    ELSE [row EXCEPT !.status = FAILED_DL, !.error = error_text(outcome)]

\* A loop that passes over DOWNLOADED rows only
owned_not_downloaded(row) == row.status # DOWNLOADED

\* A loop that passes over no row
owned_any(row) == TRUE

\* The rows the loop does not pass over: row.get("status") == "QUEUED"
owned(row) == row.status = QUEUED

\* w.writerows(rows): every row in memory, in the order it was read
write_back(rs) == rs

\* if not QUEUE_CSV.exists(): log a warning and return
dl_missing ==
    /\ dl_pc = "idle"
    /\ ~ csv_exists
    /\ exited' = <<"download", 0>>
    /\ UNCHANGED <<csv_exists, csv_rows, raw_files, releases, all_rows, rss_vars, dl_vars,
                   prev_observed, last_saved, kills, all_vars, call_vars>>

\* rows = list(csv.DictReader(...)); dirty = False
dl_read ==
    /\ dl_pc = "idle"
    /\ csv_exists
    /\ rows' = csv_rows
    /\ dirty' = FALSE
    /\ dl_i' = 1
    /\ attempts' = [i \in 1..Len(csv_rows) |-> 0]
    /\ dl_pc' = "loop"
    /\ UNCHANGED <<csv_exists, csv_rows, raw_files, releases, all_rows, rss_vars, exited,
                   prev_observed, last_saved, kills, all_vars, call_vars>>

\* One pass of `for row in rows`
dl_row ==
    /\ dl_pc = "loop"
    /\ dl_i <= Len(rows)
    /\ LET row == rows[dl_i] IN
       IF ~ owned(row)
       THEN UNCHANGED <<rows, dirty, attempts, raw_files>>
       ELSE \E outcome \in FetchOutcomes(row.url) :
              /\ rows' = [rows EXCEPT ![dl_i] = fetched_row(row, outcome)]
              /\ raw_files' =
                    IF outcome = "ok"
                    THEN raw_files \cup
                         {safe_filename(row.release_id) \o file_extension(row.url)}
                    ELSE raw_files
              /\ attempts' = [attempts EXCEPT ![dl_i] = @ + 1]
              /\ dirty' = TRUE
    /\ dl_i' = dl_i + 1
    /\ UNCHANGED <<csv_exists, csv_rows, releases, all_rows, rss_vars, dl_pc, exited,
                   prev_observed, last_saved, kills, all_vars, call_vars>>

dl_done ==
    /\ dl_pc' = "idle"
    /\ rows' = <<>>
    /\ dirty' = FALSE
    /\ dl_i' = 0
    /\ attempts' = <<>>
    /\ all_rows' = <<>>
    /\ exited' = <<"download", 0>>

\* if dirty: write the rows back (in one step); then main returns
dl_finish ==
    /\ dl_pc = "loop"
    /\ dl_i > Len(rows)
    /\ IF dirty
       THEN /\ csv_rows' = write_back(rows)
            /\ last_saved' = [exists |-> TRUE, rows |-> write_back(rows)]
       ELSE UNCHANGED <<csv_rows, last_saved>>
    /\ dl_done
    /\ UNCHANGED <<csv_exists, raw_files, releases, rss_vars, prev_observed, kills, all_vars, call_vars>>

(***************************************************************************)
(* Calendar dates and the texts the readers take them from.                *)
(* A date is <<year, month, day>>; <<>> stands for ValueError.             *)
(***************************************************************************)
IsDigits(s) == \A i \in 1..Len(s) : IsDigit(s[i])

\* min(S) of a non-empty set of numbers
Min(S) == CHOOSE a \in S : \A b \in S : a <= b

\* s.endswith(p)
endswith(s, p) == Len(s) >= Len(p) /\ SubSeq(s, Len(s) - Len(p) + 1, Len(s)) = p

\* s.strip() and s.rstrip(c); the space is the only whitespace of the alphabet
RECURSIVE lstrip(_)
lstrip(s) == IF s # <<>> /\ s[1] = " " THEN lstrip(Tail(s)) ELSE s
RECURSIVE rstrip(_, _)
rstrip(s, c) ==
    IF s # <<>> /\ s[Len(s)] = c THEN rstrip(SubSeq(s, 1, Len(s) - 1), c) ELSE s
strip(s) == rstrip(lstrip(s), " ")

\* str(n) for n >= 0
RECURSIVE str(_)
str(n) == IF n < 10 THEN <<Digit(n)>> ELSE str(n \div 10) \o <<Digit(n % 10)>>

is_leap(y) == y % 4 = 0 /\ (y % 100 # 0 \/ y % 400 = 0)
days_in_month(y, m) ==
    IF m = 2 THEN (IF is_leap(y) THEN 29 ELSE 28)
    ELSE IF m \in {4, 6, 9, 11} THEN 30 ELSE 31

\* datetime(y, m, d) / dt.date(y, m, d)
date(y, m, d) ==
    IF y >= 1 /\ y <= 9999 /\ m >= 1 /\ m <= 12 /\ d >= 1 /\ d <= days_in_month(y, m)
    THEN <<y, m, d>> ELSE <<>>

\* dt.date.min
date_min == <<1, 1, 1>>

\* a > b on dates
date_gt(a, b) ==
    \/ a[1] > b[1]
    \/ a[1] = b[1] /\ a[2] > b[2]
    \/ a[1] = b[1] /\ a[2] = b[2] /\ a[3] > b[3]

\* d.strftime("%Y%m%d").  The C library formats %Y; glibc does not pad a year
\* below 1000 with zeros, other libraries do: `pad` is the platform's way.
strftime_Ymd(d, pad) ==
    (IF pad \/ d[1] >= 1000 THEN fmt04(d[1]) ELSE str(d[1])) \o fmt02(d[2]) \o fmt02(d[3])

\* What strptime's %d, %m and %Y match, as the number read; 0 (for %Y, -1)
\* when the text is not one the directive matches.
field_d(s) ==
    LET t == IF Len(s) = 2 /\ s[1] = " " THEN <<s[2]>> ELSE s
    IN  IF Len(s) \in {1, 2} /\ IsDigits(t) /\ int(t) \in 1..31
        THEN int(t) ELSE 0
field_m(s) ==
    IF Len(s) \in {1, 2} /\ IsDigits(s) /\ int(s) \in 1..12 THEN int(s) ELSE 0
field_Y(s) == IF Len(s) = 4 /\ IsDigits(s) THEN int(s) ELSE -1

\* datetime.strptime(s, "%d<sep>%m<sep>%Y") and (s, "%Y<sep>%m<sep>%d")
strptime_fields(d, m, y) ==
    IF field_d(d) = 0 \/ field_m(m) = 0 \/ field_Y(y) < 0 THEN <<>>
    ELSE date(field_Y(y), field_m(m), field_d(d))
strptime_dmY(s, sep) ==
    LET p == split(s, sep)
    IN  IF Len(p) # 3 THEN <<>> ELSE strptime_fields(p[1], p[2], p[3])
strptime_Ymd(s, sep) ==
    LET p == split(s, sep)
    IN  IF Len(p) # 3 THEN <<>> ELSE strptime_fields(p[3], p[2], p[1])

\* The time part of an ISO text: HH[:MM[:SS[.fff[fff]]]], and after it an
\* offset of the same shape behind a sign
two(s, hi) == Len(s) = 2 /\ IsDigits(s) /\ int(s) <= hi
iso_hms_ok(t) ==
    \/ two(t, 23)
    \/ Len(t) = 5 /\ two(SubSeq(t, 1, 2), 23) /\ t[3] = ":" /\ two(SubSeq(t, 4, 5), 59)
    \/ /\ Len(t) \in {8, 12, 15}
       /\ two(SubSeq(t, 1, 2), 23) /\ t[3] = ":" /\ two(SubSeq(t, 4, 5), 59)
       /\ t[6] = ":" /\ two(SubSeq(t, 7, 8), 59)
       /\ Len(t) > 8 => (t[9] = "." /\ IsDigits(SubSeq(t, 10, Len(t))))
iso_time_ok(t) ==
    LET p == split(t, "-")
    IN  IF Len(p) = 1 THEN iso_hms_ok(t)
        ELSE Len(p) = 2 /\ iso_hms_ok(p[1]) /\ iso_hms_ok(p[2])

\* datetime.fromisoformat(s), the date of it: YYYY-MM-DD, alone or followed by
\* one separator character and a time.  (From Python 3.11 on the function
\* also reads week dates and texts without hyphens; none occurs here.)
fromisoformat(s) ==
    IF Len(s) < 10 THEN <<>>
    ELSE IF ~ (/\ IsDigits(SubSeq(s, 1, 4)) /\ s[5] = "-"
               /\ IsDigits(SubSeq(s, 6, 7)) /\ s[8] = "-"
               /\ IsDigits(SubSeq(s, 9, 10))) THEN <<>>
    ELSE IF Len(s) > 10 /\ ~ iso_time_ok(SubSeq(s, 12, Len(s))) THEN <<>>
    ELSE date(int(SubSeq(s, 1, 4)), int(SubSeq(s, 6, 7)), int(SubSeq(s, 9, 10)))

(***************************************************************************)
(* Scrape: scrape_agent.py, run against data/rss_queue.csv (no --excel).   *)
(***************************************************************************)
\* DATE_RE.search(s).group(1): the leftmost run of six digits, extended to at
\* most eight; <<>> when there is none
DATE_RE_search(s) ==
    LET starts == {i \in 1..Len(s) : i + 5 <= Len(s) /\ IsDigits(SubSeq(s, i, i + 5))}
    IN  IF starts = {} THEN <<>>
        ELSE LET i == Min(starts)
                 n == CHOOSE k \in 6..8 :
                        /\ i + k - 1 <= Len(s) /\ IsDigits(SubSeq(s, i, i + k - 1))
                        /\ (k = 8 \/ i + k > Len(s) \/ ~ IsDigit(s[i + k]))
             IN  SubSeq(s, i, i + n - 1)

\* Rule 2 of best_stamp for one field: the stamp, or <<>> to go on
digits_stamp(field) ==
    LET s == DATE_RE_search(field)
    IN  IF Len(s) = 8 THEN s
        ELSE IF Len(s) = 6
        THEN LET mo == SubSeq(s, 1, 2)
                 dy == SubSeq(s, 3, 4)
                 yy == SubSeq(s, 5, 6)
             IN  (IF int(yy) < 80 THEN <<"2","0">> ELSE <<"1","9">>) \o yy \o mo \o dy
        ELSE <<>>

\* The first of the dates ds that is a date; <<>> when none is
first_date(ds) ==
    IF \A i \in 1..Len(ds) : ds[i] = <<>> THEN <<>>
    ELSE ds[CHOOSE i \in 1..Len(ds) : ds[i] # <<>> /\ \A j \in 1..(i - 1) : ds[j] = <<>>]

\* Rule 1, 1-bis and 1-ter of best_stamp: the date read from `published`
published_date(pub) ==
    IF pub = <<>> THEN <<>>
    ELSE first_date(<< fromisoformat(rstrip(pub, "Z")), strptime_dmY(pub, "-"),
                       strptime_Ymd(pub, "/"), strptime_dmY(pub, "/") >>)

\* Rule 2 of best_stamp: the stamp from release_id, else from url, else <<>>
fields_stamp(row) ==
    LET a == digits_stamp(row.release_id)
    IN  IF a # <<>> THEN a ELSE digits_stamp(row.url)

\* best_stamp(row); `today` is datetime.utcnow().  A row without the key
\* `published` or `pub_date` has it empty.
best_stamp(row, today, pad) ==
    LET d == published_date(strip(IF row.published # <<>> THEN row.published
                                  ELSE row.pub_date))
        f == fields_stamp(row)
    IN  IF d # <<>> THEN strftime_Ymd(d, pad)
        ELSE IF f # <<>> THEN f
        ELSE strftime_Ymd(today, pad)

\* A derivation that reads source and dataset before `indicator`
derive_indicator_source_first(row) ==
    LET src == strip(row.source)
        dts == strip(row.dataset)
        rid == split(row.release_id, "_")
    IN  IF src # <<>> /\ dts # <<>> THEN src \o <<"_">> \o dts
        ELSE IF row.indicator # <<>> THEN strip(row.indicator)
        ELSE IF Len(rid) >= 2 /\ ~ startswith(rid[2], T.http)
        THEN rid[1] \o <<"_">> \o rid[2]
        ELSE IF rid[1] # <<>> THEN rid[1] ELSE T.UNKNOWN

\* derive_indicator(row); a row without the key `indicator` has it empty
derive_indicator(row) ==
    IF row.indicator # <<>> THEN strip(row.indicator)
    ELSE LET src == strip(row.source)
             dts == strip(row.dataset)
             rid == split(row.release_id, "_")
         IN  IF src # <<>> /\ dts # <<>> THEN src \o <<"_">> \o dts
             ELSE IF Len(rid) >= 2 /\ ~ startswith(rid[2], T.http)
             THEN rid[1] \o <<"_">> \o rid[2]
             ELSE IF rid[1] # <<>> THEN rid[1] ELSE T.UNKNOWN

\* A row of the queue as csv.DictReader hands it to the readers
queue_record(r) == [indicator |-> <<>>, pub_date |-> <<>>] @@ r

\* records: the DOWNLOADED rows, in file order
records_of(table) == SelectSeq(table, LAMBDA r : r.status = DOWNLOADED)

\* latest.items(): per indicator the first record met, in the order met
latest_of(records) ==
    LET keep == {i \in 1..Len(records) :
                    \A j \in 1..(i - 1) :
                        derive_indicator(queue_record(records[j]))
                            # derive_indicator(queue_record(records[i]))}
        F[i \in 0..Len(records)] ==
            IF i = 0 THEN <<>>
            ELSE IF i \in keep THEN Append(F[i - 1], records[i]) ELSE F[i - 1]
    IN  F[Len(records)]

\* RAW_DIR.glob(prefix + "*")
glob_prefix(files, prefix) == {f \in files : startswith(f, prefix)}

\* lookup_raw(row): the files matches[0] can be (glob's order is the
\* directory's); {} stands for None
lookup_raw(row, files) ==
    IF glob_prefix(files, safe_filename(row.release_id)) # {}
    THEN glob_prefix(files, safe_filename(row.release_id))
    ELSE glob_prefix(files, safe_filename(row.url))

\* out_file, relative to OUT_ROOT
out_file(ind, stamp) == ind \o <<"/">> \o ind \o <<"_">> \o stamp \o T.txt

\* Path.suffix: the name from its last dot on
suffix(name) ==
    LET dots == {i \in 2..Len(name) : name[i] = "."}
    IN  IF dots = {} THEN <<>>
        ELSE SubSeq(name, CHOOSE i \in dots : \A j \in dots : j <= i, Len(name))

\* What requests.get(url) of the scrape stage can end in
ScrapeFetchOutcomes == {"ok", "failed"}

\* The body of the scrape loop for one selected row: the sets of files it can
\* write ({} when the row is passed over or the scrape fails)
scrape_row(row, files, today, pad) ==
    LET rec  == queue_record(row)
        ind  == derive_indicator(rec)
        url  == strip(row.url)
        out  == out_file(ind, best_stamp(rec, today, pad))
        live == IF url = <<>> THEN {{}}
                ELSE {IF o = "ok" THEN {out} ELSE {} : o \in ScrapeFetchOutcomes}
    IN  IF startswith(row.dataset, T.EARN_) THEN {{}}
        ELSE IF lookup_raw(row, files) = {} THEN live
        ELSE UNION {IF endswith(lower(suffix(raw_path)), T.html) THEN {{out}}
                    ELSE IF endswith(lower(suffix(raw_path)), T.pdf) THEN {{}}
                    ELSE live : raw_path \in lookup_raw(row, files)}

\* The scrape loop over latest.items(): the sets of files it can write
RECURSIVE scrape_loop(_, _, _, _)
scrape_loop(latest, files, today, pad) ==
    IF latest = <<>> THEN {{}}
    ELSE {a \cup b : a \in scrape_row(latest[1], files, today, pad),
                     b \in scrape_loop(Tail(latest), files, today, pad)}

(***************************************************************************)
(* Earnings: earnings_agent.py                                             *)
(***************************************************************************)

IsAlpha(c) == IsUpper(c) \/ IsLower(c)

\* The month abbreviations SLUG_DATE_RE starts a month name with; strptime's
\* %b reads the first three letters (the fourth of "sept" is left to [a-z]*)
MonthAbbr ==
    << <<"j","a","n">>, <<"f","e","b">>, <<"m","a","r">>, <<"a","p","r">>,
       <<"m","a","y">>, <<"j","u","n">>, <<"j","u","l">>, <<"a","u","g">>,
       <<"s","e","p">>, <<"o","c","t">>, <<"n","o","v">>, <<"d","e","c">> >>

\* dt.datetime.strptime(mon_txt[:3], "%b").month
month_b(mon3) == CHOOSE k \in 1..Len(MonthAbbr) : MonthAbbr[k] = lower(mon3)

\* SLUG_DATE_RE from the hyphen at j that ends the month name begun at i:
\* \d{1,2} of length dl, a hyphen and \d{4}
slug_day_len(s, j) ==
    IF /\ j + 3 <= Len(s) /\ IsDigit(s[j + 1]) /\ IsDigit(s[j + 2]) /\ s[j + 3] = "-"
    THEN 2
    ELSE IF j + 2 <= Len(s) /\ IsDigit(s[j + 1]) /\ s[j + 2] = "-" THEN 1
    ELSE 0
slug_groups(s, i, j, dl) ==
    IF s[j] # "-" \/ dl = 0 THEN <<>>
    ELSE IF ~ (j + dl + 5 <= Len(s) /\ IsDigits(SubSeq(s, j + dl + 2, j + dl + 5)))
    THEN <<>>
    ELSE << SubSeq(s, i + 1, j - 1), SubSeq(s, j + 1, j + dl),
            SubSeq(s, j + dl + 2, j + dl + 5) >>

\* The first position from `from` on that holds no letter ([a-z]* under re.I
\* stops there); 0 when the text ends first
name_end(s, from) ==
    LET rest == {j \in from..Len(s) : ~ IsAlpha(s[j])}
    IN  IF rest = {} THEN 0 ELSE Min(rest)

slug_from_name(s, i, j) ==
    IF j = 0 THEN <<>> ELSE slug_groups(s, i, j, slug_day_len(s, j))

\* SLUG_DATE_RE matched at position i of s: <<mon_txt, day_txt, year_txt>>, or
\* <<>> when it does not match there
slug_match_at(s, i) ==
    IF ~ (/\ s[i] = "-" /\ i + 3 <= Len(s)
          /\ \E k \in 1..Len(MonthAbbr) : MonthAbbr[k] = lower(SubSeq(s, i + 1, i + 3)))
    THEN <<>>
    ELSE slug_from_name(s, i, name_end(s, i + 4))

\* SLUG_DATE_RE.search(s).groups(): the leftmost match; <<>> for None
SLUG_DATE_RE_search(s) ==
    LET at == {i \in 1..Len(s) : slug_match_at(s, i) # <<>>}
    IN  IF at = {} THEN <<>> ELSE slug_match_at(s, Min(at))

\* dt.date(int(year_txt), mon_num, int(day_txt)) of a match m
slug_date(m) == date(int(m[3]), month_b(SubSeq(m[1], 1, 3)), int(m[2]))

\* d of the else branch: ISO published[:10], DD-MM-YYYY published, date.min
published_or_min(pub) ==
    LET d == first_date(<< fromisoformat(SubSeq(pub, 1, IF Len(pub) < 10 THEN Len(pub)
                                                         ELSE 10)),
                           strptime_dmY(pub, "-") >>)
    IN  IF d # <<>> THEN d ELSE date_min

\* A resolution that reads `published` first and the slug only when
\* `published` holds no date
resolved_date_published_first(r) ==
    LET d == published_or_min(strip(r.published))
        m == SLUG_DATE_RE_search(r.url)
    IN  IF d # date_min \/ m = <<>> THEN d ELSE slug_date(m)

\* The date newest_by_tag resolves for one row; <<>> when dt.date(...) raises
\* ValueError (the call is outside every try)
resolved_date(r) ==
    LET m == SLUG_DATE_RE_search(r.url)
    IN  IF m # <<>> THEN slug_date(m) ELSE published_or_min(strip(r.published))

\* A selection in which the row met last replaces the one kept
newest_put_last(latest, e) ==
    LET at == {k \in 1..Len(latest) : latest[k].tag = e.tag}
    IN  IF at = {} THEN Append(latest, e) ELSE [latest EXCEPT ![Min(at)] = e]

\* `latest` after the loop body has met a row of tag `tag` with date d
newest_put(latest, e) ==
    LET at == {k \in 1..Len(latest) : latest[k].tag = e.tag}
    IN  IF at = {} THEN Append(latest, e)
        ELSE IF date_gt(e.ts, latest[Min(at)].ts) THEN [latest EXCEPT ![Min(at)] = e]
        ELSE latest

\* A loop body that keeps one row for the two earnings tags together
newest_step_merged(latest, r) ==
    newest_put(latest, [tag |-> T.EARN_, row |-> r, ts |-> resolved_date(r)])

\* The body of newest_by_tag's loop for one row r; `latest` is a sequence of
\* [tag, row, ts] (ts is row["_ts"]) in the order the tags were first met
newest_step(latest, r) ==
    newest_put(latest, [tag |-> r.dataset, row |-> r, ts |-> resolved_date(r)])

RECURSIVE newest_loop(_, _)
newest_loop(latest, rs) ==
    IF rs = <<>> THEN latest
    ELSE newest_loop(newest_step(latest, rs[1]), Tail(rs))

\* Whether dt.date(...) raises ValueError for some row
newest_raises(rs) == \E i \in 1..Len(rs) : resolved_date(rs[i]) = <<>>

\* newest_by_tag(rows): latest.items()
newest_by_tag(rs) == newest_loop(<<>>, rs)

\* YEAR_SLUG.search(s).end(): the index of the last character of the leftmost
\* "-19dd-" or "-20dd-"; 0 for no match
YEAR_SLUG_end(s) ==
    LET at == {i \in 1..(Len(s) - 5) :
                 /\ s[i] = "-" /\ s[i + 5] = "-"
                 /\ SubSeq(s, i + 1, i + 2) \in {<<"1","9">>, <<"2","0">>}
                 /\ IsDigits(SubSeq(s, i + 3, i + 4))}
    IN  IF at = {} THEN 0 ELSE Min(at) + 5

MONTHS ==
    { <<"J","A","N">>, <<"F","E","B">>, <<"M","A","R">>, <<"A","P","R">>,
      <<"M","A","Y">>, <<"J","U","N">>, <<"J","U","L">>, <<"A","U","G">>,
      <<"S","E","P">>, <<"S","E","P","T">>, <<"O","C","T">>, <<"N","O","V">>,
      <<"D","E","C">>, <<"D","E","C","E","M","B","E","R">> }

\* TICK_PAT.match(up): one to five capitals, then possibly a dot and a capital
TICK_PAT_match(up) ==
    LET core == IF Len(up) >= 3 /\ up[Len(up) - 1] = "." /\ IsUpper(up[Len(up)])
                THEN SubSeq(up, 1, Len(up) - 2) ELSE up
    IN  Len(core) \in 1..5 /\ \A i \in 1..Len(core) : IsUpper(core[i])

\* extract_tickers(url)
extract_tickers(url) ==
    LET e    == YEAR_SLUG_end(lower(url))
        slug == split(SubSeq(url, e + 1, Len(url)), "?")[1]
        toks == split(slug, "-")
        ups  == [i \in 1..Len(toks) |-> upper(toks[i])]
    IN  IF e = 0 THEN <<>>
        ELSE SelectSeq(ups, LAMBDA up : up \notin MONTHS /\ TICK_PAT_match(up))

\* rows: the DOWNLOADED Nasdaq earnings rows, in file order
earnings_rows(table) ==
    SelectSeq(table, LAMBDA r : /\ r.source = T.Nasdaq
                                /\ r.dataset \in {T.EARN_PRE, T.EARN_AH}
                                /\ r.status = DOWNLOADED)

\* RAW_DIR.glob(f"{safe}*.html")
glob_html(files, safe) == {f \in files : startswith(f, safe) /\ endswith(f, T.html)
                                          /\ Len(f) >= Len(safe) + Len(T.html)}

\* The body of the earnings loop for one selected row: the sets of files it
\* can write
earnings_row(e, files, pad) ==
    LET ind_dir  == T.Nasdaq_ \o e.tag
        stamp    == strftime_Ymd(e.ts, pad)
        stem     == ind_dir \o <<"/">> \o ind_dir \o <<"_">> \o stamp
        txt_path == stem \o T.txt
        sidecar  == stem \o T.tickers
    IN  IF glob_html(files, safe_filename(e.row.release_id)) = {} THEN {}
        ELSE IF extract_tickers(e.row.url) = <<>> THEN {txt_path}
        ELSE {txt_path, sidecar}

\* The earnings loop over newest_by_tag(rows).items(): the files it writes
earnings_loop(latest, files, pad) ==
    UNION {earnings_row(latest[k], files, pad) : k \in 1..Len(latest)}

(***************************************************************************)
(* The runs of the two readers.  Neither touches the queue or data/raw.    *)
(***************************************************************************)
\* datetime.utcnow() at the time scrape runs
Todays == {<<2025, 7, 2>>}

reader_frame ==
    UNCHANGED <<csv_exists, csv_rows, raw_files, all_rows, rss_vars, dl_vars,
                prev_observed, last_saved, kills, all_vars, call_vars>>

\* QUEUE_CSV does not exist: sys.exit("rss_queue.csv not found ..."), which
\* prints the text and ends the process with status 1
scrape_missing ==
    /\ ~ csv_exists
    /\ exited' = <<"scrape", 1>>
    /\ UNCHANGED releases
    /\ reader_frame

\* No DOWNLOADED row: sys.exit("No DOWNLOADED rows ..."), status 1
scrape_no_records ==
    /\ csv_exists
    /\ records_of(csv_rows) = <<>>
    /\ exited' = <<"scrape", 1>>
    /\ UNCHANGED releases
    /\ reader_frame

\* The selection and the scrape loop, to "Scrape-agent complete."
scrape_run ==
    /\ csv_exists
    /\ records_of(csv_rows) # <<>>
    /\ \E today \in Todays, pad \in BOOLEAN :
         \E written \in scrape_loop(latest_of(records_of(csv_rows)), raw_files,
                                    today, pad) :
            releases' = releases \cup written
    /\ exited' = <<"scrape", 0>>
    /\ reader_frame

\* earnings_agent.main when QUEUE_CSV does not exist: a log line and return
earnings_missing ==
    /\ ~ csv_exists
    /\ exited' = <<"earnings", 0>>
    /\ UNCHANGED releases
    /\ reader_frame

\* earnings_agent.main when no row is a DOWNLOADED Nasdaq earnings row
earnings_no_rows ==
    /\ csv_exists
    /\ earnings_rows(csv_rows) = <<>>
    /\ exited' = <<"earnings", 0>>
    /\ UNCHANGED releases
    /\ reader_frame

\* earnings_agent.main over the selected rows; a ValueError raised inside
\* newest_by_tag ends the process with a traceback and status 1
earnings_run ==
    /\ csv_exists
    /\ earnings_rows(csv_rows) # <<>>
    /\ IF newest_raises(earnings_rows(csv_rows))
       THEN /\ exited' = <<"earnings", 1>>
            /\ UNCHANGED releases
       ELSE /\ \E pad \in BOOLEAN :
                 releases' = releases \cup
                     earnings_loop(newest_by_tag(earnings_rows(csv_rows)), raw_files, pad)
            /\ exited' = <<"earnings", 0>>
    /\ reader_frame

(***************************************************************************)
(* The saves step by step, and a run killed from outside.                  *)
(* open(path, "w") empties the file; the rows reach it afterwards, so a    *)
(* process killed in between leaves the rows flushed so far.               *)
(***************************************************************************)
\* write_queue: all_rows.sort(...); QUEUE_CSV.open("w")
rss_open_w ==
    /\ rss_pc = "loop"
    /\ rss_i > Len(active)
    /\ all_rows' = rss_to_write
    /\ csv_exists' = TRUE
    /\ csv_rows' = <<>>
    /\ rss_pc' = "writing"
    /\ UNCHANGED <<raw_files, releases, existing, seen_ids, new_rows, rss_i, observed,
                   fetched,
                   dl_vars, exited, prev_observed, last_saved, kills, all_vars, call_vars>>

\* write_queue: w.writeheader(); w.writerows(all_rows); the file is closed
rss_writerows ==
    /\ rss_pc = "writing"
    /\ csv_rows' = all_rows
    /\ last_saved' = [exists |-> TRUE, rows |-> all_rows]
    /\ rss_done
    /\ UNCHANGED <<csv_exists, raw_files, releases, dl_vars, kills, all_vars, call_vars>>

\* download_agent.main: if dirty: open(QUEUE_CSV, "w", ...)
dl_open_w ==
    /\ dl_pc = "loop"
    /\ dl_i > Len(rows)
    /\ dirty
    /\ all_rows' = write_back(rows)
    /\ csv_rows' = <<>>
    /\ dl_pc' = "writing"
    /\ UNCHANGED <<csv_exists, raw_files, releases, rows, dirty, dl_i, attempts,
                   rss_vars, exited, prev_observed, last_saved, kills, all_vars, call_vars>>

\* download_agent.main: w.writeheader(); w.writerows(rows); the file is closed
dl_writerows ==
    /\ dl_pc = "writing"
    /\ csv_rows' = all_rows
    /\ last_saved' = [exists |-> TRUE, rows |-> all_rows]
    /\ dl_done
    /\ UNCHANGED <<csv_exists, raw_files, releases, rss_vars, prev_observed, kills, all_vars, call_vars>>

\* download_agent.main: nothing was QUEUED, so nothing is written
dl_return ==
    /\ dl_pc = "loop"
    /\ dl_i > Len(rows)
    /\ ~ dirty
    /\ dl_done
    /\ UNCHANGED <<csv_exists, csv_rows, raw_files, releases, rss_vars, prev_observed,
                   last_saved, kills, all_vars, call_vars>>

\* The file after a writer is killed: untouched unless the writer had opened
\* it, and then any number of the leading rows.
killed_file(pc) ==
    IF pc = "writing" THEN {SubSeq(all_rows, 1, n) : n \in 0..Len(all_rows)}
    ELSE {csv_rows}

kill_rss ==
    /\ rss_pc # "idle"
    /\ kills < MaxKills
    /\ csv_rows' \in killed_file(rss_pc)
    /\ rss_pc' = "idle"
    /\ existing' = <<>>
    /\ seen_ids' = {}
    /\ new_rows' = <<>>
    /\ observed' = {}
    /\ fetched' = <<>>
    /\ rss_i' = 0
    /\ all_rows' = <<>>
    /\ exited' = <<"rss", 137>>
    /\ kills' = kills + 1
    /\ UNCHANGED <<csv_exists, raw_files, releases, dl_vars, prev_observed,
                   last_saved, all_vars, call_vars>>

kill_dl ==
    /\ dl_pc # "idle"
    /\ kills < MaxKills
    /\ csv_rows' \in killed_file(dl_pc)
    /\ dl_pc' = "idle"
    /\ rows' = <<>>
    /\ dirty' = FALSE
    /\ dl_i' = 0
    /\ attempts' = <<>>
    /\ all_rows' = <<>>
    /\ exited' = <<"download", 137>>
    /\ kills' = kills + 1
    /\ UNCHANGED <<csv_exists, raw_files, releases, rss_vars, prev_observed,
                   last_saved, all_vars, call_vars>>

(***************************************************************************)
(* Specifications.                                                         *)
(***************************************************************************)
\* Nothing has run yet: no queue file, no raw file, no release
Fresh ==
    /\ csv_exists = FALSE
    /\ csv_rows = <<>>
    /\ raw_files = {}
    /\ releases = {}
    /\ rss_pc = "idle"
    /\ existing = <<>>
    /\ seen_ids = {}
    /\ new_rows = <<>>
    /\ rss_i = 0
    /\ all_rows = <<>>
    /\ dl_pc = "idle"
    /\ rows = <<>>
    /\ dirty = FALSE
    /\ dl_i = 0
    /\ exited = <<"none", 0>>
    /\ observed = {}
    /\ fetched = <<>>
    /\ prev_observed = {}
    /\ attempts = <<>>
    /\ last_saved = [exists |-> FALSE, rows |-> <<>>]
    /\ kills = 0
    /\ all_pc = "idle"
    /\ all_i = 0
    /\ started = <<>>

\* The row a resolver is called on, and the call's record: the resolver, what
\* it returned or that it raised, and the clock and platform it ran with
Row(rid, src, dts, url, pub, pd, ind) ==
    [release_id |-> rid, source |-> src, dataset |-> dts, url |-> url,
     published |-> pub, pub_date |-> pd, indicator |-> ind]
Called(op, out, raised, today, pad) ==
    [op |-> op, out |-> out, raised |-> raised, today |-> today, pad |-> pad]

\* Initially no resolver has been called on its own
Init ==
    /\ Fresh
    /\ arg = Row(<<>>, <<>>, <<>>, <<>>, <<>>, <<>>, <<>>)
    /\ res = Called("none", <<>>, FALSE, <<>>, FALSE)

\* No stage is running: the stages run one after the other.
AllIdle == rss_pc = "idle" /\ dl_pc = "idle"

\* Stages run to completion, one at a time, in any order and any number of times.
Next ==
    \/ AllIdle /\ rss_load
    \/ rss_source
    \/ rss_finish
    \/ AllIdle /\ dl_missing
    \/ AllIdle /\ dl_read
    \/ dl_row
    \/ dl_finish

Spec == Init /\ [][Next]_vars

\* The same runs with each save in its two steps, followed until a run is
\* killed for the MaxKills-th time.
Alive == AllIdle /\ kills < MaxKills

NextKill ==
    \/ Alive /\ rss_load
    \/ rss_source
    \/ rss_open_w
    \/ rss_writerows
    \/ Alive /\ dl_missing
    \/ Alive /\ dl_read
    \/ dl_row
    \/ dl_open_w
    \/ dl_writerows
    \/ dl_return
    \/ kill_rss
    \/ kill_dl

SpecKill == Init /\ [][NextKill]_vars

\* The readers at the end of any sequence of discovery and download runs:
\* once a reader has run, no writer starts again.
Readers == {"scrape", "earnings"}
WritersTurn == AllIdle /\ exited[1] \notin Readers

NextReaders ==
    \/ WritersTurn /\ rss_load
    \/ rss_source
    \/ rss_finish
    \/ WritersTurn /\ dl_missing
    \/ WritersTurn /\ dl_read
    \/ dl_row
    \/ dl_finish
    \/ AllIdle /\ scrape_missing
    \/ AllIdle /\ scrape_no_records
    \/ AllIdle /\ scrape_run
    \/ AllIdle /\ earnings_missing
    \/ AllIdle /\ earnings_no_rows
    \/ AllIdle /\ earnings_run

SpecReaders == Init /\ [][NextReaders]_vars

\* The two writers side by side: each stage runs to completion as before, but
\* nothing keeps one from starting, stepping or saving while the other runs.
\* A run starts only while the table holds at most MaxSharedRows rows.
Shared == Len(csv_rows) <= MaxSharedRows

NextConcurrent ==
    \/ Shared /\ rss_load
    \/ rss_source
    \/ rss_finish
    \/ dl_missing
    \/ Shared /\ dl_read
    \/ dl_row
    \/ dl_finish

SpecConcurrent == Init /\ [][NextConcurrent]_vars

\* Discovery alone, run after run, with the history of what each source gave.
NextDiscovery ==
    \/ rss_load
    \/ rss_source_traced
    \/ rss_finish

SpecDiscovery == Init /\ [][NextDiscovery]_vars

(***************************************************************************)
(* main.py: `run all`.  run_script is subprocess.run(..., check=True): it  *)
(* starts the stage's script, waits for it to end, and raises              *)
(* CalledProcessError when the exit status is not 0.  Nothing catches it.  *)
(***************************************************************************)
\* The tuple main iterates over
ALL_STAGES == <<"rss", "download", "scrape", "earnings", "store", "fred">>

\* What is left unchanged by a stage that touches none of the files above
stage_frame ==
    UNCHANGED <<csv_exists, csv_rows, raw_files, releases, all_rows, rss_vars,
                dl_vars, prev_observed, last_saved, kills, all_vars, call_vars>>

\* store_agent.main without data/parsed_rows.csv: a log line and return
store_missing ==
    /\ exited' = <<"store", 0>>
    /\ stage_frame

\* store_agent.main with data/parsed_rows.csv: the merge into macro.csv, or a
\* traceback when pandas cannot read one of the two files
store_merge ==
    /\ \E status \in {0, 1} : exited' = <<"store", status>>
    /\ stage_frame

\* fred_calendar_agent.py without FRED_API_KEY: raise SystemExit(text)
fred_no_key ==
    /\ exited' = <<"fred", 1>>
    /\ stage_frame

\* fred_calendar_agent.py with the key: the calendar is written, or a request
\* fails with an exception other than HTTPError, which nothing catches
fred_run ==
    /\ \E status \in {0, 1} : exited' = <<"fred", status>>
    /\ stage_frame

all_frame ==
    UNCHANGED <<csv_exists, csv_rows, raw_files, releases, all_rows, rss_vars,
                dl_vars, prev_observed, last_saved, kills, call_vars>>

\* `python main.py run all` is started: main reaches the for loop
all_begin ==
    /\ all_pc \in {"idle", "done", "raised"}
    /\ AllIdle
    /\ all_pc' = "for"
    /\ all_i' = 1
    /\ started' = <<>>
    /\ exited' = <<"none", 0>>
    /\ all_frame

\* run_script(STAGE_TO_SCRIPT[stage]): the stage's process is started
all_call ==
    /\ all_pc = "for"
    /\ all_i <= Len(ALL_STAGES)
    /\ all_pc' = "wait"
    /\ started' = Append(started, ALL_STAGES[all_i])
    /\ UNCHANGED <<all_i, exited>>
    /\ all_frame

\* The loop goes on whatever the stage's exit status was
after_stage_unchecked(status, i) ==
    IF i < Len(ALL_STAGES) THEN [pc |-> "for", i |-> i + 1] ELSE [pc |-> "done", i |-> i]

\* Where main is after subprocess.run(check=True) has returned or raised
after_stage(status, i) ==
    IF status # 0 THEN [pc |-> "raised", i |-> i]
    ELSE IF i < Len(ALL_STAGES) THEN [pc |-> "for", i |-> i + 1]
    ELSE [pc |-> "done", i |-> i]

\* The stage's process has ended: subprocess.run returns or raises
all_return ==
    /\ all_pc = "wait"
    /\ AllIdle
    /\ exited[1] = ALL_STAGES[all_i]
    /\ all_pc' = after_stage(exited[2], all_i).pc
    /\ all_i' = after_stage(exited[2], all_i).i
    /\ UNCHANGED <<started, exited>>
    /\ all_frame

\* The process that run_script started has yet to run stage st
Child(st) ==
    /\ all_pc = "wait"
    /\ ALL_STAGES[all_i] = st
    /\ exited[1] # st
    /\ AllIdle

\* `run all`, any number of times.  Discovery has written the queue file
\* before any later stage runs, so no stage finds it missing.
NextAll ==
    \/ all_begin
    \/ all_call
    \/ Child("rss") /\ rss_load
    \/ rss_source
    \/ rss_finish
    \/ Child("download") /\ dl_read
    \/ dl_row
    \/ dl_finish
    \/ Child("scrape") /\ scrape_no_records
    \/ Child("scrape") /\ scrape_run
    \/ Child("earnings") /\ earnings_no_rows
    \/ Child("earnings") /\ earnings_run
    \/ Child("store") /\ store_missing
    \/ Child("store") /\ store_merge
    \/ Child("fred") /\ fred_no_key
    \/ Child("fred") /\ fred_run
    \/ all_return

SpecAll == Init /\ [][NextAll]_vars

(***************************************************************************)
(* The resolvers called on one row, as the tests call them: best_stamp and *)
(* derive_indicator (scrape_agent.py), newest_by_tag (earnings_agent.py),  *)
(* sort_key (rss_agent.py).                                                *)
(***************************************************************************)
\* The values the rows are built from, per column, and the calendar dates
\* whose renderings are values of `published`
Pool ==
    [ published |->
        { <<>>,
          <<"2","0","2","5","-","0","6","-","0","1">>,
          <<"2","0","-","0","6","-","2","0","2","5">>,
          <<"2","0","2","5","/","0","6","/","2","1">>,
          <<"2","1","/","0","6","/","2","0","2","5">>,
          <<"2","0","2","5","-","0","2","-","3","0">>,
          <<"3","1","-","0","2","-","2","0","2","5">>,
          <<"J","u","n","e">>,
          <<"2","0","2","5","-","0","6","-","0","1","T","1","0",":","0","0",":","0","0","Z">>,
          <<" ","1","9","-","0","6","-","2","0","2","5"," ">> },
      url |->
        { <<>>,
          <<"h","/","4">>,
          <<"x","-","j","u","n","e","-","2","0","-","2","0","2","5","-","a","a","p","l">>,
          <<"x","-","f","e","b","-","3","0","-","2","0","2","5","-","a","a","p","l">>,
          <<"x","-","S","e","p","t","-","5","-","2","0","2","5","/","0","5","1","3","2","5">> },
      release_id |->
        { <<>>,
          <<"f","o","o","_","0","1","0","1","2","0">>,
          <<"B","L","S","_","h","t","t","p",":","/","x">>,
          <<"X","_","2","0","2","5","0","1","0","2">>,
          <<"a","_","1","2","3","4","5","6","7","_","b","_","2","0","2","5","0","1","0","2">>,
          <<"n","_","1","2","3","4","5","6","7","8","9">>,
          <<"f","_","0","5","1","3","2","5">>,
          <<"p","_","0","1","0","1","7","5">>,
          <<"B","L","S">> },
      ticker_url |->
        { <<"p","-","j","u","n","e","-","2","0","-","2","0","2","5","-","a","a","p","l","-","m","s","f","t">>,
          <<"x","-","2","0","2","5","-","a","a","p","l","-","j","u","n","e","-","m","s","f","t">>,
          <<"x","-","2","0","2","5","-","m","a","y","-","a","a","p","l">>,
          <<"X","-","2","0","2","5","-","A","a","p","l","-","b",".","c","-","t","o","o","l","o","n","g","-","a","1","?","q","-","i","b","m">>,
          <<"x","-","3","0","2","5","-","a","a","p","l">> },
      text |->
        { <<"a","/","b",":","c">>,
          <<"A"," ","z","?",".","-","_","9">>,
          <<"a","_","b","_","c">> },
      date |->
        {d \in {1999, 2024, 2025} \X {1, 2, 6, 12} \X {1, 9, 19, 28, 29, 30, 31} :
            date(d[1], d[2], d[3]) # <<>>} ]

\* date.isoformat() and date.strftime("%d-%m-%Y")
isoformat(d) == fmt04(d[1]) \o <<"-">> \o fmt02(d[2]) \o <<"-">> \o fmt02(d[3])
strftime_dmY(d) == fmt02(d[3]) \o <<"-">> \o fmt02(d[2]) \o <<"-">> \o fmt04(d[1])

\* The rows a resolver is called on: rows that differ in what a date is read
\* from, rows that differ in what the indicator is read from, rows whose
\* `published` is a rendering of a calendar date, rows with tickers in the
\* URL and characters to replace in release_id, and the rows discovery makes
\* for each configured source, with and without their source and dataset
ArgRows ==
    {Row(rid, T.Nasdaq, T.EARN_PRE, url, pub, pd, <<>>) :
        rid \in Pool.release_id, url \in Pool.url, pub \in Pool.published,
        pd \in {<<>>, isoformat(<<2025, 6, 30>>)}}
    \cup
    {Row(rid, src, dts, <<"h","/","4">>, <<>>, <<>>, ind) :
        rid \in Pool.release_id, src \in {<<>>, T.BLS, <<" ">>}, dts \in {<<>>, T.CPI},
        ind \in {<<>>, <<" ","X"," ">>}}
    \cup
    {Row(T.BLS, T.BLS, T.CPI, <<"h","/","4">>, pub, <<>>, <<>>) :
        pub \in {isoformat(d) : d \in Pool.date} \cup {strftime_dmY(d) : d \in Pool.date}}
    \cup
    {Row(text, T.Nasdaq, T.EARN_PRE, url, <<>>, <<>>, <<>>) :
        text \in Pool.text, url \in Pool.ticker_url}
    \cup
    {Row(release_id_of(CONFIG[k], unique),
         IF kept THEN CONFIG[k].source ELSE <<>>,
         IF kept THEN CONFIG[k].dataset ELSE <<>>, unique, <<>>, <<>>, <<>>) :
        k \in 1..Len(CONFIG), unique \in {<<"g","1">>, <<"h","/","2">>},
        kept \in BOOLEAN}

call_frame ==
    UNCHANGED <<csv_exists, csv_rows, raw_files, releases, all_rows, rss_vars,
                dl_vars, exited, prev_observed, last_saved, kills, all_vars, arg>>

\* best_stamp(row)
call_best_stamp ==
    /\ res.op = "none"
    /\ \E today \in Todays, pad \in BOOLEAN :
          res' = Called("best_stamp", best_stamp(arg, today, pad), FALSE, today, pad)
    /\ call_frame

\* derive_indicator(row)
call_derive_indicator ==
    /\ res.op = "none"
    /\ res' = Called("derive_indicator", derive_indicator(arg), FALSE, <<>>, FALSE)
    /\ call_frame

\* sort_key(r)
call_sort_key ==
    /\ res.op = "none"
    /\ res' = Called("sort_key", sort_key(arg), FALSE, <<>>, FALSE)
    /\ call_frame

\* newest_by_tag([r])[r["dataset"]]["_ts"], or the ValueError it ends in
call_newest_by_tag ==
    /\ res.op = "none"
    /\ res' = IF newest_raises(<<arg>>)
              THEN Called("newest_by_tag", <<>>, TRUE, <<>>, FALSE)
              ELSE Called("newest_by_tag", newest_by_tag(<<arg>>)[1].ts, FALSE, <<>>, FALSE)
    /\ call_frame

\* extract_tickers(url)
call_extract_tickers ==
    /\ res.op = "none"
    /\ res' = Called("extract_tickers", extract_tickers(arg.url), FALSE, <<>>, FALSE)
    /\ call_frame

\* safe_filename(row["release_id"])
call_safe_filename ==
    /\ res.op = "none"
    /\ res' = Called("safe_filename", safe_filename(arg.release_id), FALSE, <<>>, FALSE)
    /\ call_frame

\* summary_agent.DATE_RE.search(name).group(1): the digits behind the leftmost
\* underscore that six digits follow, eight of them at most; <<>> for None
DATE_RE_summary(name) ==
    LET at == {i \in 1..(Len(name) - 6) :
                  name[i] = "_" /\ IsDigits(SubSeq(name, i + 1, i + 6))}
    IN  IF at = {} THEN <<>>
        ELSE LET i == Min(at)
                 n == CHOOSE k \in 6..8 :
                        /\ i + k <= Len(name) /\ IsDigits(SubSeq(name, i + 1, i + k))
                        /\ (k = 8 \/ i + k + 1 > Len(name) \/ ~ IsDigit(name[i + k + 1]))
             IN  SubSeq(name, i + 1, i + n)

\* rel_date(path), the date of the datetime it returns; `name` is path.name
\* and `mtime` the date of path.stat().st_mtime.  strptime's %y reads 00-68
\* as 2000-2068 and 69-99 as 1969-1999.
rel_date(name, mtime) ==
    LET digits == DATE_RE_summary(name)
        d == IF Len(digits) = 8
             THEN strptime_fields(SubSeq(digits, 7, 8), SubSeq(digits, 5, 6),
                                  SubSeq(digits, 1, 4))
             ELSE IF Len(digits) = 6
             THEN strptime_fields(SubSeq(digits, 1, 2), SubSeq(digits, 3, 4),
                                  (IF int(SubSeq(digits, 5, 6)) <= 68
                                   THEN <<"2","0">> ELSE <<"1","9">>)
                                      \o SubSeq(digits, 5, 6))
             ELSE <<>>
    IN  IF d # <<>> THEN d ELSE mtime

\* rel_date(path) for the output file named after the row's release_id
call_rel_date ==
    /\ res.op = "none"
    /\ \E mtime \in {<<2025, 7, 1>>} :
          res' = Called("rel_date", rel_date(arg.release_id \o T.txt, mtime), FALSE,
                        mtime, FALSE)
    /\ call_frame

NextCall ==
    \/ call_best_stamp
    \/ call_derive_indicator
    \/ call_sort_key
    \/ call_newest_by_tag
    \/ call_extract_tickers
    \/ call_safe_filename
    \/ call_rel_date

\* One call of one resolver on one of the rows
InitCall == Fresh /\ arg \in ArgRows /\ res = Called("none", <<>>, FALSE, <<>>, FALSE)

SpecCall == InitCall /\ [][NextCall]_vars

(***************************************************************************)
(* newest_by_tag (earnings_agent.py) and write_queue (rss_agent.py) called *)
(* on a list of rows, then called again on the list with one more row, or  *)
(* on the same rows in another order.                                      *)
(***************************************************************************)
\* The longest list a call is made on
MaxBatch == 3

\* The rows the lists are made of: Nasdaq earnings rows of either tag, with
\* or without a slug date in the URL, `published` empty, ISO or DD-MM-YYYY
BatchRows ==
    {Row(T.Nasdaq_ \o tag \o <<"_">> \o url, T.Nasdaq, tag, url, pub, <<>>, <<>>) :
        tag \in {T.EARN_PRE, T.EARN_AH},
        url \in {<<>>, <<"x","-","j","u","n","e","-","2","0","-","2","0","2","5","-","a","a","p","l">>},
        pub \in {<<>>, <<"2","0","2","5","-","0","6","-","0","1">>,
                  <<"2","0","-","0","6","-","2","0","2","5">>}}

\* The record of newest_by_tag(rs): latest.items(), or the ValueError
newest_called(op, rs) ==
    IF newest_raises(rs) THEN Called(op, <<>>, TRUE, <<>>, FALSE)
    ELSE Called(op, newest_by_tag(rs), FALSE, <<>>, FALSE)

\* newest_by_tag(rows)
batch_newest ==
    /\ res.op = "none"
    /\ res' = newest_called("newest", arg)
    /\ call_frame

\* newest_by_tag on the rows with one more row among them
batch_newest_more ==
    /\ res.op = "newest"
    /\ Len(arg) < MaxBatch
    /\ \E r \in BatchRows, i \in 0..Len(arg) :
          /\ arg' = SubSeq(arg, 1, i) \o <<r>> \o SubSeq(arg, i + 1, Len(arg))
          /\ res' = newest_called("newest_more", arg')
    /\ UNCHANGED <<csv_exists, csv_rows, raw_files, releases, all_rows, rss_vars,
                   dl_vars, exited, prev_observed, last_saved, kills, all_vars>>

\* write_queue(all_rows): the rows as written
batch_write_queue ==
    /\ res.op = "none"
    /\ res' = Called("write_queue", write_queue(arg), FALSE, <<>>, FALSE)
    /\ call_frame

\* write_queue on the same rows, handed over in another order
batch_write_queue_again ==
    /\ res.op = "write_queue"
    /\ \E p \in [1..Len(arg) -> 1..Len(arg)] :
          /\ \A i, j \in 1..Len(arg) : p[i] = p[j] => i = j
          /\ arg' = [i \in 1..Len(arg) |-> arg[p[i]]]
          /\ res' = Called("write_queue_again", write_queue(arg'), FALSE, <<>>, FALSE)
    /\ UNCHANGED <<csv_exists, csv_rows, raw_files, releases, all_rows, rss_vars,
                   dl_vars, exited, prev_observed, last_saved, kills, all_vars>>

\* A list of at most MaxBatch - 1 rows, and no call made yet
InitBatch ==
    /\ Fresh
    /\ arg \in UNION {[1..n -> BatchRows] : n \in 0..(MaxBatch - 1)}
    /\ res = Called("none", <<>>, FALSE, <<>>, FALSE)

NextBatch ==
    \/ batch_newest
    \/ batch_newest_more
    \/ batch_write_queue
    \/ batch_write_queue_again

SpecBatch == InitBatch /\ [][NextBatch]_vars

(***************************************************************************)
(* store_agent.main on data/parsed_rows.csv (the staged rows) and          *)
(* data/macro.csv (the master table).                                      *)
(***************************************************************************)
\* The longest table in either file
MaxStore == 2

\* df.drop_duplicates(subset=["release_id", "series"], keep="last"): of the
\* rows with one key the last stays, at its place
drop_duplicates(df) ==
    LET keep == {i \in 1..Len(df) :
                    \A j \in (i + 1)..Len(df) :
                        <<df[j].release_id, df[j].series>>
                            # <<df[i].release_id, df[i].series>>}
        F[i \in 0..Len(df)] ==
            IF i = 0 THEN <<>>
            ELSE IF i \in keep THEN Append(F[i - 1], df[i]) ELSE F[i - 1]
    IN  F[Len(df)]

\* df of main (26-31)
store_df(macro_exists, df_old, df_new) ==
    IF macro_exists THEN drop_duplicates(df_old \o df_new) ELSE df_new

\* main from line 23 on: macro.csv as written, and PARSED_CSV.unlink()
store_main ==
    /\ res.op = "none"
    /\ LET df_new == [i \in 1..Len(arg.parsed) |->
                         [arg.parsed[i] EXCEPT !.ingest_ts = "utcnow"]]
       IN  res' = Called("store",
                         [macro |-> store_df(arg.macro_exists, arg.macro, df_new),
                          parsed_exists |-> FALSE],
                         FALSE, <<>>, FALSE)
    /\ call_frame

\* The two files before the run: parsed_rows.csv with at least one row, and
\* macro.csv absent or with any rows
InitStore ==
    LET Keys == {<< <<"r","1">>, <<"s","1">> >>, << <<"r","1">>, <<"s","2">> >>,
                 << <<"r","2">>, <<"s","1">> >>}
        Rows(ts) == {[release_id |-> k[1], series |-> k[2], value |-> v,
                      ingest_ts |-> ts] : k \in Keys, v \in {1, 2}}
    IN  /\ Fresh
        /\ \E ex \in BOOLEAN :
              \E old \in UNION {[1..n -> Rows("earlier")] : n \in 0..MaxStore},
                 new \in UNION {[1..n -> Rows("")] : n \in 1..MaxStore} :
                  /\ ex \/ old = <<>>
                  /\ arg = [macro_exists |-> ex, macro |-> old, parsed |-> new]
        /\ res = Called("none", <<>>, FALSE, <<>>, FALSE)

SpecStore == InitStore /\ [][store_main]_vars

(***************************************************************************)
(* Properties.                                                             *)
(***************************************************************************)
ID_g1 == release_id_of(CONFIG[1], <<"g","1">>)
ID_h2 == release_id_of(CONFIG[1], <<"h","/","2">>)
ID_h3 == release_id_of(CONFIG[2], <<"h","/","3">>)
ID_h5 == release_id_of(CONFIG[3], <<"h","/","5">>)
ID_g3 == release_id_of(CONFIG[4], <<"g","3">>)

\* The persisted table, absent or not.
Table == [exists |-> csv_exists, rows |-> csv_rows]

\* C1: a discovery run that meets the same identities as the discovery run
\* completed before it (the feeds and crawler pages held the same content)
\* leaves the table with the same number of rows and the same release_id set.
C1_RediscoveryAddsNothing ==
    [][ (rss_pc = "loop" /\ rss_pc' = "idle" /\ kills' = kills
         /\ observed = prev_observed)
        => /\ Len(csv_rows') = Len(csv_rows)
           /\ ids(csv_rows') = ids(csv_rows) ]_vars

\* A second discovery run has gone through every source, has met exactly the
\* identities of the first, the table holds them, and the write is next.
C1_Witness ==
    /\ rss_pc = "loop"
    /\ rss_i > Len(active)
    /\ exited = <<"rss", 0>>
    /\ observed = prev_observed
    /\ Cardinality(observed) >= 2
    /\ observed \subseteq ids(csv_rows)

\* C2: no two rows of the persisted table have the same release_id.
C2_UniqueReleaseId ==
    \A i, j \in 1..Len(csv_rows) :
        csv_rows[i].release_id = csv_rows[j].release_id => i = j

\* Feed f1 has listed entry g1 twice (every content of f1 that yields g1 alone
\* lists it twice) and queued it, then feed f2 has yielded g1 again after h/3:
\* the run holds g1 once, and the table it writes next holds it once.
C2_Witness ==
    /\ rss_pc = "loop"
    /\ rss_i = 3
    /\ Len(new_rows) = 2
    /\ new_rows[1].release_id = ID_g1
    /\ new_rows[2].release_id = ID_h3

\* C3: a persisted row changes status only from QUEUED to DOWNLOADED or to
\* FAILED_DL, and a row that is DOWNLOADED or FAILED_DL is never changed.
C3_StatusForwardOnly ==
    [][ \A i \in 1..Len(csv_rows) : \A j \in 1..Len(csv_rows') :
          csv_rows'[j].release_id = csv_rows[i].release_id =>
            IF csv_rows[i].status = QUEUED
            THEN \/ csv_rows'[j] = csv_rows[i]
                 \/ csv_rows'[j].status \in {DOWNLOADED, FAILED_DL}
            ELSE csv_rows'[j] = csv_rows[i] ]_vars

\* A discovery run has rewritten a table that holds a DOWNLOADED row, a
\* FAILED_DL row and a row queued after them.
C3_Witness ==
    /\ AllIdle
    /\ exited = <<"rss", 0>>
    /\ \E i, j, k \in 1..Len(csv_rows) :
          /\ csv_rows[i].status = DOWNLOADED
          /\ csv_rows[j].status = FAILED_DL
          /\ csv_rows[k].status = QUEUED

C5_NoRowRemoved ==
    [][ csv_exists => (csv_exists' /\ ids(csv_rows) \subseteq ids(csv_rows')) ]_vars

\* The last discovery run did not meet g1 (it left the feeds), and the row of
\* g1 is still in the table it wrote.
C5_Witness ==
    /\ AllIdle
    /\ exited = <<"rss", 0>>
    /\ ID_g1 \notin prev_observed
    /\ ID_g1 \in ids(csv_rows)
    /\ prev_observed # {}

\* C6: the persisted rows are in descending order of sort_key, and the rows
\* with an empty key come after all rows with a key.
C6_SortedByDateKey ==
    \A i, j \in 1..Len(csv_rows) :
        i < j => /\ ~ str_lt(sort_key(csv_rows[i]), sort_key(csv_rows[j]))
                 /\ sort_key(csv_rows[i]) = <<>> => sort_key(csv_rows[j]) = <<>>

\* The download stage has written back three rows: two with different keys,
\* and one without a key.
C6_Witness ==
    /\ AllIdle
    /\ exited = <<"download", 0>>
    /\ Len(csv_rows) = 3
    /\ sort_key(csv_rows[1]) # sort_key(csv_rows[2])
    /\ sort_key(csv_rows[2]) # <<>>
    /\ sort_key(csv_rows[3]) = <<>>
    /\ \E i \in 1..3 : csv_rows[i].status # QUEUED

\* C7: what the download stage writes back has every row it read, in the same
\* place; a row that was not QUEUED is unchanged, and a row that was QUEUED
\* differs at most in status and error.
C7_DownloadFrame ==
    [][ dl_pc = "loop" =>
          /\ Len(csv_rows') = Len(csv_rows)
          /\ \A i \in 1..Len(csv_rows) :
                IF csv_rows[i].status = QUEUED
                THEN [csv_rows'[i] EXCEPT !.status = QUEUED, !.error = <<>>]
                        = [csv_rows[i] EXCEPT !.error = <<>>]
                ELSE csv_rows'[i] = csv_rows[i] ]_vars

\* The download stage is about to write back a table in which it has
\* processed a QUEUED row and passed over a DOWNLOADED and a FAILED_DL row.
C7_Witness ==
    /\ dl_pc = "loop"
    /\ dl_i > Len(rows)
    /\ dirty
    /\ \E i, j, k \in 1..Len(rows) :
          /\ csv_rows[i].status = DOWNLOADED
          /\ csv_rows[j].status = FAILED_DL
          /\ csv_rows[k].status = QUEUED /\ rows[k].status # QUEUED

\* C8: when a download run ends, every row it read as QUEUED has been fetched
\* exactly once and is written DOWNLOADED with an empty error or FAILED_DL
\* with the text of the failure; no row is left QUEUED.
C8_EveryQueuedRowSettled ==
    [][ (dl_pc = "loop" /\ dl_pc' = "idle" /\ kills' = kills) =>
          /\ \A i \in 1..Len(csv_rows) :
                csv_rows[i].status = QUEUED =>
                   /\ attempts[i] = 1
                   /\ \/ /\ csv_rows'[i].status = DOWNLOADED
                         /\ csv_rows'[i].error = <<>>
                      \/ /\ csv_rows'[i].status = FAILED_DL
                         /\ csv_rows'[i].error \in
                               {error_text(o) : o \in FetchOutcomes(csv_rows[i].url) \ {"ok"}}
          /\ \A i \in 1..Len(csv_rows') : csv_rows'[i].status # QUEUED ]_vars

\* A download run has gone through three QUEUED rows: one fetch succeeded, one
\* raised for the empty URL, and one timed out or was answered with an error
\* status.
C8_Witness ==
    /\ dl_pc = "loop"
    /\ dl_i > Len(rows)
    /\ Len(rows) = 3
    /\ \A i \in 1..3 : csv_rows[i].status = QUEUED /\ attempts[i] = 1
    /\ \E i, j, k \in 1..3 :
          /\ rows[i].status = DOWNLOADED
          /\ rows[j].status = FAILED_DL /\ rows[j].error = T.invalid
          /\ rows[k].status = FAILED_DL /\ rows[k].error \in {T.http404, T.timeout}

\* C9: when the queue table file is absent, a stage that reads it (download,
\* scrape, earnings) ends with exit status 0 and has written no output.
C9_MissingTableIsNothingToDo ==
    (~ csv_exists /\ exited[1] \in {"download", "scrape", "earnings"})
        => (exited[2] = 0 /\ raw_files = {} /\ releases = {})

\* C10: whenever no stage is running (a run has ended or was killed), the
\* rows of the persisted table are the rows of the last completed save.
C10_TableIsLastCompletedSave ==
    AllIdle => csv_rows = last_saved.rows

\* C11: with the two writers side by side, each save replaces the whole table
\* by what its stage read at its start and changed in memory.  A status the
\* download stage wrote after discovery had read the table is not in the
\* table discovery saves, and a record discovery added after the download
\* stage had read the table is not in the table the download stage saves.
C11_StaleSaveLosesUpdate ==
    [][ /\ (rss_pc = "loop" /\ rss_pc' = "idle") =>
              \A i \in 1..Len(csv_rows) : \A j \in 1..Len(existing) :
                  (/\ existing[j].release_id = csv_rows[i].release_id
                   /\ existing[j].status # csv_rows[i].status)
                  => \A k \in 1..Len(csv_rows') :
                        csv_rows'[k].release_id = csv_rows[i].release_id
                           => csv_rows'[k].status = existing[j].status
        /\ (dl_pc = "loop" /\ dl_pc' = "idle" /\ dirty) =>
              \A i \in 1..Len(csv_rows) :
                  csv_rows[i].release_id \notin ids(rows)
                     => csv_rows[i].release_id \notin ids(csv_rows') ]_vars

\* Both runs have ended.  The raw file of a row is on disk (the row had been
\* written DOWNLOADED) and the table does not say so, and a record that the
\* last discovery run saved is not in the table.
C11_Witness ==
    /\ AllIdle
    /\ \E i \in 1..Len(csv_rows) :
          /\ safe_filename(csv_rows[i].release_id) \o file_extension(csv_rows[i].url)
                \in raw_files
          /\ csv_rows[i].status # DOWNLOADED
    /\ \E id \in prev_observed : id \notin ids(csv_rows)

\* The stage a step belongs to: the stage whose position moves or whose end
\* is recorded by the step; "none" for a step of main itself.
C12_Acting ==
    IF rss_pc' # rss_pc THEN "rss"
    ELSE IF dl_pc' # dl_pc THEN "download"
    ELSE IF exited' # exited THEN exited'[1]
    ELSE "none"

\* C12: `run all` starts the stages in the order of the tuple; a stage runs
\* only as the stage started last; a stage is started only when no stage is
\* running and the stage started before it has ended with status 0; and once
\* a stage has ended with another status no stage is started or run.
C12_FixedOrderStopOnFailure ==
    [][ /\ started' = SubSeq(ALL_STAGES, 1, Len(started'))
        /\ C12_Acting # "none" =>
              (started # <<>> /\ C12_Acting = started[Len(started)] /\ all_pc = "wait")
        /\ (started' # started /\ started' # <<>>) =>
              /\ AllIdle
              /\ Len(started') = Len(started) + 1
              /\ started # <<>> => exited = <<started[Len(started)], 0>>
        /\ all_pc = "raised" =>
              /\ exited[2] # 0
              /\ exited[1] = started[Len(started)]
              /\ (all_pc' = "raised" /\ started' = started /\ C12_Acting = "none")
                 \/ (all_pc' = "for" /\ started' = <<>>) ]_vars

\* `run all` has raised after its third stage: the table held no DOWNLOADED
\* row (every download had failed), scrape ended with status 1, and earnings,
\* store and fred were not started.
C12_Witness ==
    /\ all_pc = "raised"
    /\ started = <<"rss", "download", "scrape">>
    /\ exited = <<"scrape", 1>>
    /\ csv_rows # <<>>

\* `run all` has run its six stages, each to status 0, and returned.
C12_AllDone ==
    /\ all_pc = "done"
    /\ started = ALL_STAGES
    /\ exited = <<"fred", 0>>
    /\ releases # {}

C14_UnidentifiedEntryIsSkipped ==
    [][ (rss_pc = "loop" /\ rss_pc' = "loop" /\ fetched'[rss_i] = "unidentified") =>
          /\ rss_i' = rss_i + 1
          /\ release_id_of(active[rss_i], <<>>) \notin ids(new_rows')
          /\ \E doc \in source_docs(active[rss_i]) :
                /\ fetch_kind(active[rss_i], doc) = "unidentified"
                /\ LET rest == SelectSeq(doc, LAMBDA e : ~ unidentified(active[rss_i], e))
                       out  == feed_entries(active[rss_i], rest,
                                            Acc(new_rows, seen_ids, observed))
                   IN  /\ new_rows' = out.new_rows
                       /\ seen_ids' = out.seen_ids
                       /\ observed' = out.observed ]_vars

\* The first feed had an entry without identity before entry g1: g1 was
\* queued, the three sources after the feed were processed, and the last of
\* them gave a record; the write is next.
C14_Witness ==
    /\ rss_pc = "loop"
    /\ rss_i > Len(active)
    /\ Len(fetched) = Len(active)
    /\ fetched[1] = "unidentified"
    /\ fetched[4] = "entries"
    /\ Len(new_rows) >= 2
    /\ new_rows[1].release_id = ID_g1
    /\ ID_g3 \in ids(new_rows)

\* C15: in the table a discovery run saves, every row that was not in the
\* table before is QUEUED with an empty error, and every row that was in it
\* is there with the status and error it had.
C15_DiscoveryAddsQueuedOnly ==
    [][ (rss_pc = "loop" /\ rss_pc' = "idle" /\ kills' = kills) =>
          /\ \A n \in 1..Len(csv_rows') :
                csv_rows'[n].release_id \notin ids(csv_rows) =>
                   (csv_rows'[n].status = QUEUED /\ csv_rows'[n].error = <<>>)
          /\ \A i \in 1..Len(csv_rows) :
                \E n \in 1..Len(csv_rows') :
                   /\ csv_rows'[n].release_id = csv_rows[i].release_id
                   /\ csv_rows'[n].status = csv_rows[i].status
                   /\ csv_rows'[n].error = csv_rows[i].error ]_vars

\* A discovery run over a table with a FAILED_DL row (and its error text) and
\* a DOWNLOADED row has accepted a record; the write is next.
C15_Witness ==
    /\ rss_pc = "loop"
    /\ rss_i > Len(active)
    /\ new_rows # <<>>
    /\ \E i, j \in 1..Len(csv_rows) :
          /\ csv_rows[i].status = FAILED_DL /\ csv_rows[i].error # <<>>
          /\ csv_rows[j].status = DOWNLOADED

\* C16: newest_by_tag resolves a row whose URL holds a slug date
\* -<month name>-<day>-<year> to that slug date, whatever `published` holds;
\* `published` (ISO, then DD-MM-YYYY, then the sentinel date.min) decides only
\* for a URL without a slug date.
C16_SlugOf ==
    [u \in Pool.url |->
        IF u = <<"x","-","j","u","n","e","-","2","0","-","2","0","2","5","-","a","a","p","l">>
        THEN <<2025, 6, 20>>
        ELSE IF u = <<"x","-","S","e","p","t","-","5","-","2","0","2","5","/","0","5","1","3","2","5">>
        THEN <<2025, 9, 5>>
        ELSE <<>>]
C16_PublishedOf ==
    [p \in Pool.published |->
        IF p = <<"2","0","2","5","-","0","6","-","0","1">> THEN <<2025, 6, 1>>
        ELSE IF p = <<"2","0","-","0","6","-","2","0","2","5">> THEN <<2025, 6, 20>>
        ELSE IF p = <<"2","0","2","5","-","0","6","-","0","1","T","1","0",":","0","0",":","0","0","Z">>
        THEN <<2025, 6, 1>>
        ELSE IF p = <<" ","1","9","-","0","6","-","2","0","2","5"," ">> THEN <<2025, 6, 19>>
        ELSE date_min]
C16_SlugDateWins ==
    (res.op = "newest_by_tag" /\ arg.url \in Pool.url /\ arg.published \in Pool.published) =>
        /\ C16_SlugOf[arg.url] # <<>> =>
               ~ res.raised /\ res.out = C16_SlugOf[arg.url]
        /\ SLUG_DATE_RE_search(arg.url) = <<>> =>
               ~ res.raised /\ res.out = C16_PublishedOf[arg.published]

\* A row with a slug date of 20 June 2025 and `published` 2025-06-01 has been
\* resolved to the slug date
C16_Witness ==
    /\ res.op = "newest_by_tag"
    /\ arg.url \in Pool.url
    /\ C16_SlugOf[arg.url] = <<2025, 6, 20>>
    /\ arg.published = isoformat(<<2025, 6, 1>>)
    /\ res.out = <<2025, 6, 20>>

\* C17: date resolution never raises: newest_by_tag and best_stamp return a
\* date for every row, and a slug that has the form of a date but names no
\* calendar date is passed over for what `published` gives, in the end the
\* sentinel date.min.
C17_ResolutionNeverRaises ==
    /\ res.op \in {"newest_by_tag", "best_stamp"} => ~ res.raised /\ res.out # <<>>
    /\ (res.op = "newest_by_tag" /\ arg.url \in Pool.url /\ arg.published \in Pool.published
            /\ C16_SlugOf[arg.url] = <<>>)
         => res.out = C16_PublishedOf[arg.published]

\* C18: best_stamp returns the stamp of the first rule that succeeds, in the
\* order ISO `published`, DD-MM-YYYY `published`, YYYY/MM/DD then DD/MM/YYYY
\* `published`, an 8- or 6-digit run in release_id, then one in url, then the
\* current UTC date; a parseable `published` wins over embedded digits.
\* (Rows of the resolver's contract: no `pub_date`; the expected values are
\* written out per pool value, a run being a maximal run of digits.)
C18_PublishedOf ==
    [p \in Pool.published |->
        IF p = <<"2","0","2","5","-","0","6","-","0","1">> THEN <<2025, 6, 1>>
        ELSE IF p = <<"2","0","-","0","6","-","2","0","2","5">> THEN <<2025, 6, 20>>
        ELSE IF p = <<"2","0","2","5","/","0","6","/","2","1">> THEN <<2025, 6, 21>>
        ELSE IF p = <<"2","1","/","0","6","/","2","0","2","5">> THEN <<2025, 6, 21>>
        ELSE IF p = <<"2","0","2","5","-","0","6","-","0","1","T","1","0",":","0","0",":","0","0","Z">>
        THEN <<2025, 6, 1>>
        ELSE IF p = <<" ","1","9","-","0","6","-","2","0","2","5"," ">> THEN <<2025, 6, 19>>
        ELSE <<>>]
C18_RunOf ==
    [f \in Pool.release_id \cup Pool.url |->
        IF f = <<"f","o","o","_","0","1","0","1","2","0">> THEN <<2020, 1, 1>>
        ELSE IF f = <<"X","_","2","0","2","5","0","1","0","2">> THEN <<2025, 1, 2>>
        ELSE IF f = <<"a","_","1","2","3","4","5","6","7","_","b","_","2","0","2","5","0","1","0","2">>
        THEN <<2025, 1, 2>>
        ELSE IF f = <<"x","-","S","e","p","t","-","5","-","2","0","2","5","/","0","5","1","3","2","5">>
        THEN <<2025, 5, 13>>
        ELSE IF f = <<"f","_","0","5","1","3","2","5">> THEN <<2025, 5, 13>>
        ELSE IF f = <<"p","_","0","1","0","1","7","5">> THEN <<2075, 1, 1>>
        ELSE <<>>]
C18_Expected ==
    IF C18_PublishedOf[arg.published] # <<>> THEN C18_PublishedOf[arg.published]
    ELSE IF C18_RunOf[arg.release_id] # <<>> THEN C18_RunOf[arg.release_id]
    ELSE IF C18_RunOf[arg.url] # <<>> THEN C18_RunOf[arg.url]
    ELSE res.today
C18_FirstRuleThatSucceeds ==
    (/\ res.op = "best_stamp"
     /\ arg.published \in Pool.published /\ arg.release_id \in Pool.release_id /\ arg.url \in Pool.url
     /\ arg.pub_date = <<>>
     /\ arg.release_id # <<"n","_","1","2","3","4","5","6","7","8","9">>)
    => res.out = strftime_Ymd(C18_Expected, res.pad)

\* C19: for every calendar date, sort_key gives the same 8-digit key YYYYMMDD
\* for a row whose `published` is the date's ISO rendering YYYY-MM-DD and for
\* a row whose `published` is its DD-MM-YYYY rendering.
C19_SameKeyForBothRenderings ==
    \A d \in Pool.date :
        (res.op = "sort_key" /\ arg.published \in {isoformat(d), strftime_dmY(d)})
        => /\ res.out = fmt04(d[1]) \o fmt02(d[2]) \o fmt02(d[3])
           /\ Len(res.out) = 8 /\ IsDigits(res.out)

\* The key of a row published "19-06-2025" has been computed: 20250619
C19_Witness ==
    /\ res.op = "sort_key"
    /\ arg.published = <<"1","9","-","0","6","-","2","0","2","5">>
    /\ res.out = <<"2","0","2","5","0","6","1","9">>

\* What the rules on release_id give for each pool value: its first two
\* tokens, the first alone when the second starts with "http" or is absent,
\* and `last` when the first token is empty
C20_TokensOf(last) ==
    [f \in Pool.release_id |->
        IF f = <<>> THEN last
        ELSE IF f = <<"B","L","S","_","h","t","t","p",":","/","x">> THEN <<"B","L","S">>
        ELSE IF f = <<"a","_","1","2","3","4","5","6","7","_","b","_","2","0","2","5","0","1","0","2">>
        THEN <<"a","_","1","2","3","4","5","6","7">>
        ELSE f]
C20_Trimmed(s) ==
    IF s = <<" ">> THEN <<>> ELSE IF s = <<" ","X"," ">> THEN <<"X">> ELSE s
C20_Key(last) ==
    IF arg.indicator # <<>> THEN C20_Trimmed(arg.indicator)
    ELSE IF C20_Trimmed(arg.source) # <<>> /\ C20_Trimmed(arg.dataset) # <<>>
    THEN C20_Trimmed(arg.source) \o <<"_">> \o C20_Trimmed(arg.dataset)
    ELSE C20_TokensOf(last)[arg.release_id]

\* C20 (as stated): derive_indicator returns the first applicable key in the
\* order: the `indicator` field; else {source}_{dataset} when both are
\* non-empty; else the first two underscore-separated tokens of release_id
\* when the second does not start like a URL; else the first token alone.
C20_FirstTokenAsLastResort ==
    (res.op = "derive_indicator" /\ arg.release_id \in Pool.release_id) => res.out = C20_Key(<<>>)

\* C20 (amended): as stated, with two additions: the fields are read with
\* surrounding whitespace removed, and when the first token of release_id is
\* empty the key is "UNKNOWN".
C20_UnknownAsLastResort ==
    (res.op = "derive_indicator" /\ arg.release_id \in Pool.release_id)
    => res.out = C20_Key(<<"U","N","K","N","O","W","N">>)

\* A row with no indicator, no source and an empty release_id has been keyed
\* "UNKNOWN"
C20_Witness ==
    /\ res.op = "derive_indicator"
    /\ arg.indicator = <<>> /\ arg.source = <<>> /\ arg.release_id = <<>>
    /\ res.out = <<"U","N","K","N","O","W","N">>

\* C21: after any sequence of discovery and download runs, the scrape stage
\* keeps exactly one row per indicator bucket among the DOWNLOADED rows, and
\* the row it keeps has the most recent resolved date (best_stamp) of its
\* bucket.
C21_Stamp(r) == best_stamp(queue_record(r), CHOOSE t \in Todays : TRUE, FALSE)
C21_KeptIsNewestOfBucket ==
    (exited = <<"scrape", 0>>) =>
        LET records == records_of(csv_rows)
            kept    == latest_of(records)
        IN  \A i \in 1..Len(records) :
                /\ Cardinality({k \in 1..Len(kept) :
                       derive_indicator(queue_record(kept[k]))
                           = derive_indicator(queue_record(records[i]))}) = 1
                /\ \A k \in 1..Len(kept) :
                       derive_indicator(queue_record(kept[k]))
                           = derive_indicator(queue_record(records[i]))
                       => ~ str_lt(C21_Stamp(kept[k]), C21_Stamp(records[i]))

\* The date each row of BatchRows resolves to, written out: the slug date
\* 20 June 2025, else the date of `published`, else date.min
C22_DateOf(r) ==
    IF r.url # <<>> THEN <<2025, 6, 20>>
    ELSE IF r.published = <<"2","0","2","5","-","0","6","-","0","1">> THEN <<2025, 6, 1>>
    ELSE IF r.published = <<"2","0","-","0","6","-","2","0","2","5">> THEN <<2025, 6, 20>>
    ELSE <<1, 1, 1>>
\* The entries of a result for one tag
C22_Selected(out, tag) == {out[k] : k \in {j \in 1..Len(out) : out[j].tag = tag}}

\* C22: for newest_by_tag over the rows of one tag, in any input order: a
\* row added anywhere in the list whose date is strictly older than that of
\* the selected row leaves the selected row as it was, and an added row
\* strictly newer than every other row of the tag becomes the selected row.
C22_OlderKeepsNewerReplaces ==
    [][(res.op = "newest" /\ res'.op = "newest_more" /\ ~ res.raised /\ ~ res'.raised)
        => \A i \in 1..Len(arg') :
              (arg = SubSeq(arg', 1, i - 1) \o SubSeq(arg', i + 1, Len(arg')))
              => LET r   == arg'[i]
                     was == C22_Selected(res.out, r.dataset)
                     now == C22_Selected(res'.out, r.dataset)
                 IN  /\ (was # {} /\ \A e \in was : date_gt(C22_DateOf(e.row), C22_DateOf(r)))
                           => now = was
                     /\ (\A k \in 1..Len(arg) :
                            arg[k].dataset = r.dataset
                                => date_gt(C22_DateOf(r), C22_DateOf(arg[k])))
                           => now # {} /\ \A e \in now : e.row = r]_vars

\* A row dated 20 June 2025 was added between an EARN_PRE row dated
\* 1 June 2025 and one without a date, and is the row selected
C22_Witness ==
    /\ res.op = "newest_more" /\ Len(arg) = 3
    /\ \A k \in 1..3 : arg[k].dataset = T.EARN_PRE
    /\ C22_DateOf(arg[1]) = <<2025, 6, 1>>
    /\ C22_DateOf(arg[2]) = <<2025, 6, 20>>
    /\ C22_DateOf(arg[3]) = <<1, 1, 1>>
    /\ Len(res.out) = 1 /\ res.out[1].row = arg[2]

\* C23: newest_by_tag never merges EARN_PRE and EARN_AH: for each tag that
\* has rows the result holds exactly one row, a row of that tag whose date
\* is the latest among the rows of that tag, whatever the other tag's rows
\* are; a tag without rows has none.
C23_TagsKeptApart ==
    (res.op \in {"newest", "newest_more"} /\ ~ res.raised) =>
        \A tag \in {T.EARN_PRE, T.EARN_AH} :
            LET mine == {k \in 1..Len(arg) : arg[k].dataset = tag}
                sel  == {j \in 1..Len(res.out) : res.out[j].tag = tag}
            IN  /\ Cardinality(sel) = (IF mine = {} THEN 0 ELSE 1)
                /\ Len(res.out) <= 2
                /\ \A j \in sel :
                      /\ \E k \in mine : res.out[j].row = arg[k]
                      /\ \A k \in mine :
                            ~ date_gt(C22_DateOf(arg[k]), C22_DateOf(res.out[j].row))

\* Both tags have rows, the EARN_AH rows are the newer ones, and the result
\* holds the EARN_PRE row dated 1 June 2025 next to the EARN_AH row
C23_Witness ==
    /\ res.op = "newest_more" /\ Len(arg) = 3 /\ Len(res.out) = 2
    /\ arg[1].dataset = T.EARN_AH /\ C22_DateOf(arg[1]) = <<2025, 6, 20>>
    /\ arg[2].dataset = T.EARN_PRE /\ C22_DateOf(arg[2]) = <<2025, 6, 1>>
    /\ arg[3].dataset = T.EARN_PRE /\ C22_DateOf(arg[3]) = <<1, 1, 1>>
    /\ \E j \in 1..2 : res.out[j].tag = T.EARN_PRE /\ res.out[j].row = arg[2]

\* C24: the minimum-date sentinel is used only for comparisons: no output
\* file of the scrape stage or of the earnings stage is named by the stamp
\* of date.min (a record without a resolvable date is stamped with the
\* current UTC date).
C24_NoMinDateInFileNames ==
    \A f \in releases : \A pad \in BOOLEAN :
        ~ contains(f, <<"_">> \o strftime_Ymd(date_min, pad) \o <<".">>)

\* C25: after store_agent has merged the staged rows into the master table,
\* the master table holds at most one row per (release_id, series), namely
\* the one written last (a staged row before an earlier row of the master,
\* a later staged row before an earlier one), and the staging file is gone;
\* for every prior master table, an absent one included.
C25_OneRowPerKeyLastWins ==
    (res.op = "store") =>
        LET macro == res.out.macro
            all   == arg.macro \o arg.parsed
            Key(r) == <<r.release_id, r.series>>
        IN  /\ ~ res.out.parsed_exists
            /\ \A i, j \in 1..Len(macro) : Key(macro[i]) = Key(macro[j]) => i = j
            /\ \A i \in 1..Len(all) :
                  (\A j \in (i + 1)..Len(all) : Key(all[j]) # Key(all[i]))
                  => \E k \in 1..Len(macro) :
                        Key(macro[k]) = Key(all[i]) /\ macro[k].value = all[i].value

\* The tickers expected of each URL of Pool.ticker_url: the tokens behind
\* the year segment that have the shape of a ticker and name no month
C26_Expected ==
    [u \in Pool.ticker_url |->
        IF u = <<"p","-","j","u","n","e","-","2","0","-","2","0","2","5","-","a","a","p","l","-","m","s","f","t">>
        THEN << <<"A","A","P","L">>, <<"M","S","F","T">> >>
        ELSE IF u = <<"x","-","2","0","2","5","-","a","a","p","l","-","j","u","n","e","-","m","s","f","t">>
        THEN << <<"A","A","P","L">>, <<"M","S","F","T">> >>
        ELSE IF u = <<"x","-","2","0","2","5","-","m","a","y","-","a","a","p","l">>
        THEN << <<"A","A","P","L">> >>
        ELSE IF u = <<"X","-","2","0","2","5","-","A","a","p","l","-","b",".","c","-","t","o","o","l","o","n","g","-","a","1","?","q","-","i","b","m">>
        THEN << <<"A","A","P","L">>, <<"B",".","C">> >>
        ELSE << >>]

\* C26: extract_tickers returns, upper-cased and in slug order, the
\* ticker-shaped tokens behind the year segment of the URL slug, and never
\* a token that is the name of a calendar month, abbreviated or full.
C26_TickersWithoutMonthNames ==
    (res.op = "extract_tickers" /\ arg.url \in Pool.ticker_url)
        => res.out = C26_Expected[arg.url]

\* The characters of the class [A-Za-z0-9._-]
C27_Kept ==
    {"A","B","C","D","E","F","G","H","I","J","K","L","M","N","O","P","Q","R","S",
     "T","U","V","W","X","Y","Z",
     "a","b","c","d","e","f","g","h","i","j","k","l","m","n","o","p","q","r","s",
     "t","u","v","w","x","y","z",
     "0","1","2","3","4","5","6","7","8","9", ".", "_", "-"}

\* C27: safe_filename replaces every character outside [A-Za-z0-9._-] by an
\* underscore and leaves every other character as it is, so that applying
\* it to its own result changes nothing.
C27_ReplacesOthersAndIsIdempotent ==
    (res.op = "safe_filename") =>
        /\ Len(res.out) = Len(arg.release_id)
        /\ \A i \in 1..Len(res.out) :
              res.out[i] = IF arg.release_id[i] \in C27_Kept
                           THEN arg.release_id[i] ELSE "_"
        /\ safe_filename(res.out) = res.out

\* A text with a space, a question mark and each of dot, minus and
\* underscore has been sanitised
C27_Witness ==
    /\ res.op = "safe_filename"
    /\ arg.release_id = <<"A"," ","z","?",".","-","_","9">>
    /\ res.out = <<"A","_","z","_",".","-","_","9">>

\* C28: the row order of the persisted queue depends only on the set of
\* records in it: writing the same records handed over in another order
\* gives the same rows in the same order, also among records whose date
\* keys are equal or cannot be derived.
C28_OrderIndependentOfWriteOrder ==
    [][(res'.op = "write_queue_again") => (res'.out = res.out)]_vars

\* The date of the digit run of a release_id, and its stamp: an 8-digit run
\* read as YYYYMMDD, a 6-digit run as MMDDYY with YY < 80 in 20YY and the
\* others in 19YY
C29_Run ==
    [f \in { <<"X","_","2","0","2","5","0","1","0","2">>,
             <<"f","o","o","_","0","1","0","1","2","0">>,
             <<"f","_","0","5","1","3","2","5">>,
             <<"p","_","0","1","0","1","7","5">> } |->
        IF f = <<"X","_","2","0","2","5","0","1","0","2">>
        THEN [date |-> <<2025, 1, 2>>, stamp |-> <<"2","0","2","5","0","1","0","2">>]
        ELSE IF f = <<"f","o","o","_","0","1","0","1","2","0">>
        THEN [date |-> <<2020, 1, 1>>, stamp |-> <<"2","0","2","0","0","1","0","1">>]
        ELSE IF f = <<"f","_","0","5","1","3","2","5">>
        THEN [date |-> <<2025, 5, 13>>, stamp |-> <<"2","0","2","5","0","5","1","3">>]
        ELSE [date |-> <<2075, 1, 1>>, stamp |-> <<"2","0","7","5","0","1","0","1">>]]

\* C29: rel_date over the name of an output file and best_stamp over the
\* record resolve the same embedded digit run to the same calendar date:
\* an 8-digit run as YYYYMMDD, a 6-digit run as MMDDYY with the pivot
\* YY < 80 -> 20YY, else 19YY.
C29_SameDateFromDigitRun ==
    (/\ arg.release_id \in DOMAIN C29_Run
     /\ arg.published = <<>> /\ arg.pub_date = <<>>)
        => /\ (res.op = "best_stamp") => (res.out = C29_Run[arg.release_id].stamp)
           /\ (res.op = "rel_date") => (res.out = C29_Run[arg.release_id].date)

\* C30: for every record discovery creates, for every configured source
\* name and dataset code (codes with an underscore included), the key
\* derive_indicator reads from the release_id prefix alone, on a row without
\* source and dataset, is the key `{source}_{dataset}` it gives when both
\* fields are present.
C30_SameBucketOnEitherPath ==
    (res.op = "derive_indicator" /\ arg.indicator = <<>>)
        => \A k \in 1..Len(CONFIG) : \A unique \in {<<"g","1">>, <<"h","/","2">>} :
              (/\ arg.release_id = release_id_of(CONFIG[k], unique)
               /\ arg.source \in {<<>>, CONFIG[k].source}
               /\ arg.dataset \in {<<>>, CONFIG[k].dataset})
              => res.out = CONFIG[k].source \o <<"_">> \o CONFIG[k].dataset

====
